---- MODULE Spec2Model ----
(***************************************************************************)
(* Vacuum-cleaner world: the Environment state machine                     *)
(* (src/environment.py) driven through the request handlers of the         *)
(* environment server (src/environment_server.py).                         *)
(*                                                                         *)
(* One session is followed from its creation.  Each handler is one atomic  *)
(* action: requests are issued one at a time.                              *)
(*                                                                         *)
(* Encodings                                                               *)
(*   - grid: the set of cells <<x, y>> with grid[y, x] = 1 (dirty).        *)
(*   - dirt_rate: the float in [0.0, 1.0] is carried in hundredths         *)
(*     (0 .. 100), so int(total_cells * dirt_rate) is                      *)
(*     (total_cells * dirt_rate) \div 100.                                 *)
(*   - Python None is the string "None".                                   *)
(*   - random.sample with an unknown seed is a nondeterministic choice of  *)
(*     num_dirty distinct cells.                                           *)
(***************************************************************************)
EXTENDS Integers, FiniteSets, Sequences, TLC

VARIABLES
    env,            \* the Environment of the session that Spec follows
    resp,           \* the last response about that session
    environments,   \* EnvironmentServer.environments: env_id -> entry
    used,           \* the env_ids uuid4 has handed out so far
    clock,          \* time.time()
    req,            \* the last request the server received
    out,            \* the last response of the server
    deleted,        \* history: the env_ids for which a DELETE answered 200
    rng,            \* the state of the generator behind the random module
    lock,           \* EnvironmentServer.lock: "None" or the thread that holds it
    threads,        \* the server's request threads: where each one is, and its locals
    orphans,        \* Environment objects removed from the registry: env_id -> object
    agent,          \* the BaseAgent object of the agent process
    files,          \* the recording files on disk: name -> content
    shown           \* history: what the replay has drawn, frame by frame

vars == <<env, resp>>

regvars == <<environments, used, clock, req, out, deleted>>

seedvars == <<rng, lock, threads>>

restvars == <<orphans, agent, files, shown>>

(***************************************************************************)
(* Bounds of the exploration (not program constants).                      *)
(***************************************************************************)
(* grid widths and heights tried at creation *)
SizesX == {1, 2}

SizesY == {1, 2}

(* dirt rates tried at creation, in hundredths *)
DirtRates == {0, 50, 75}

(* only parameters that make at most MaxDirty cells dirty are tried *)
MaxDirty == 2

(***************************************************************************)
(* the env_ids uuid4 can hand out *)
Ids == {"a", "b"}

(* the clock stops at MaxClock *)
MaxClock == 1

(* actions a session of the registry is given before it is left alone *)
MaxRegSteps == 1

(* parameters tried by POST /api/environment, valid and invalid:           *)
(* <<sizeX, sizeY, init_posX, init_posY, dirt_rate>>                       *)
CreateRequests ==
    { <<1, 1, 0, 0, 0>>,    <<2, 1, 0, 0, 100>>,  <<2, 1, 1, 0, 50>>,
      <<0, 1, 0, 0, 0>>,    <<1, 257, 0, 0, 0>>,
      <<2, 1, 2, 0, 100>>,  <<1, 1, 0, -1, 0>>,
      <<1, 1, 0, 0, 101>>,  <<1, 1, 0, 0, -1>> }

(* action strings tried by POST /api/environment/<id>/action *)
ActionStrings == {"suck", "SUCK", "jump", ""}

(* max_age values tried by POST /api/cleanup *)
MaxAges == {0, 1}

(* parameters tried when EnvironmentServer.create_environment is called    *)
(* without the route: <<sizeX, sizeY, init_posX, init_posY, dirt_rate>>    *)
DirectRequests ==
    { <<1, 1, 0, 0, 0>>,    <<2, 1, 0, 0, 50>>,   <<2, 1, 5, 5, 50>>,
      <<0, 1, 0, 0, 0>>,    <<1, 1, 0, 0, 150>>,  <<1, 1, 0, 0, 200>>,
      <<1, 1, 0, 0, -100>>, <<-1, 1, 0, 0, 0>> }

(* the server threads that create sessions side by side *)
Threads == {"t1", "t2", "t3"}

(* the env_ids uuid4 can hand out to them *)
Uuids == {"a", "b", "c"}

(* the server threads that use the registry side by side *)
LockThreads == {"t1", "t2"}

(* parameters their POST /api/environment requests carry *)
LockCreateRequests == { <<1, 1, 0, 0, 100>>, <<0, 1, 0, 0, 0>> }

(* action strings their action requests carry *)
LockActionStrings == {"suck"}

(* the routes that look a session up and then use it: execute_action and   *)
(* sense_environment; get_environment_state takes the steps of sense       *)
LockLookups == {"act", "sense"}

(* max_age values of their sweeps *)
LockMaxAges == {0}

(* the server threads that act on one session side by side *)
Workers == {"w1", "w2"}

(* parameters of the session they act on *)
RaceRequests == { <<1, 1, 0, 0, 100>> }

(* the actions they request *)
RaceActions == {"suck", "idle"}

(* requests each of them issues while the other may be inside one; the    *)
(* requests issued one at a time are not counted                           *)
MaxRaceRequests == 1

(* the generator has RngModulus states *)
RngModulus == 5

(* parameters of the creations that run side by side:                      *)
(* <<sizeX, sizeY, init_posX, init_posY, dirt_rate, seed>>, seed <<>> for  *)
(* None and <<n>> for the integer n                                        *)
SeedRequests ==
    { <<2, 1, 0, 0, 50, <<>>>>,  <<2, 1, 0, 0, 50, <<1>>>>,
      <<2, 1, 0, 0, 50, <<2>>>>, <<2, 2, 0, 0, 50, <<1>>>> }

(***************************************************************************)
(* Program constants.                                                      *)
(***************************************************************************)
max_actions == 1000

Action == {"up", "down", "left", "right", "suck", "idle"}

Movement == {"up", "down", "left", "right"}

(***************************************************************************)
(* Environment (src/environment.py)                                        *)
(***************************************************************************)
Cells(sizeX, sizeY) == (0 .. sizeX - 1) \X (0 .. sizeY - 1)

(* variant of num_dirty: round() in place of int() *)
num_dirty_rounded(sizeX, sizeY, dirt_rate) ==
    LET n == sizeX * sizeY * dirt_rate
        q == n \div 100
        r == n % 100
    IN  IF r > 50 \/ (r = 50 /\ q % 2 = 1) THEN q + 1 ELSE q

(* int(total_cells * dirt_rate): int() truncates toward zero *)
num_dirty(sizeX, sizeY, dirt_rate) ==
    LET n == sizeX * sizeY * dirt_rate
    IN  IF n >= 0 THEN n \div 100 ELSE -((-n) \div 100)

(* Environment.__init__ with dirty_positions the outcome of random.sample *)
Environment(sizeX, sizeY, init_posX, init_posY, dirt_rate, dirty_positions) ==
    [ sizeX             |-> sizeX,
      sizeY             |-> sizeY,
      grid              |-> dirty_positions,
      agent_x           |-> init_posX,
      agent_y           |-> init_posY,
      dirt_rate         |-> dirt_rate,
      performance       |-> 0,
      actions_taken     |-> 0,
      max_actions       |-> max_actions,
      completion_reason |-> "None" ]

is_dirty(e) == <<e.agent_x, e.agent_y>> \in e.grid

all_dirt_cleaned(e) == e.grid = {}

get_actions_remaining(e) == e.max_actions - e.actions_taken

(* variant of move: the wall tests are left out *)
move_unclamped(e, action) ==
    CASE action = "up"    -> [e EXCEPT !.agent_y = e.agent_y - 1]
      [] action = "down"  -> [e EXCEPT !.agent_y = e.agent_y + 1]
      [] action = "left"  -> [e EXCEPT !.agent_x = e.agent_x - 1]
      [] action = "right" -> [e EXCEPT !.agent_x = e.agent_x + 1]
      [] OTHER            -> e

(* variant of move: the agent leaves dirt on the cell it moves away from *)
move_soiling(e, action) ==
    LET m == CASE action = "up"    -> [e EXCEPT !.agent_y = IF e.agent_y > 0 THEN e.agent_y - 1 ELSE e.agent_y]
               [] action = "down"  -> [e EXCEPT !.agent_y = IF e.agent_y < e.sizeY - 1 THEN e.agent_y + 1 ELSE e.agent_y]
               [] action = "left"  -> [e EXCEPT !.agent_x = IF e.agent_x > 0 THEN e.agent_x - 1 ELSE e.agent_x]
               [] action = "right" -> [e EXCEPT !.agent_x = IF e.agent_x < e.sizeX - 1 THEN e.agent_x + 1 ELSE e.agent_x]
               [] OTHER            -> e
    IN  IF <<m.agent_x, m.agent_y>> # <<e.agent_x, e.agent_y>>
        THEN [m EXCEPT !.grid = m.grid \cup {<<e.agent_x, e.agent_y>>}]
        ELSE m

(* the position after a movement action, clamped at the walls *)
move(e, action) ==
    CASE action = "up"    -> [e EXCEPT !.agent_y = IF e.agent_y > 0 THEN e.agent_y - 1 ELSE e.agent_y]
      [] action = "down"  -> [e EXCEPT !.agent_y = IF e.agent_y < e.sizeY - 1 THEN e.agent_y + 1 ELSE e.agent_y]
      [] action = "left"  -> [e EXCEPT !.agent_x = IF e.agent_x > 0 THEN e.agent_x - 1 ELSE e.agent_x]
      [] action = "right" -> [e EXCEPT !.agent_x = IF e.agent_x < e.sizeX - 1 THEN e.agent_x + 1 ELSE e.agent_x]
      [] OTHER            -> e

(* variant of suck: the grid is indexed [x, y] instead of [y, x] *)
suck_transposed(e) ==
    IF is_dirty(e)
    THEN [e EXCEPT !.grid = e.grid \ {<<e.agent_y, e.agent_x>>},
                   !.performance = e.performance + 1]
    ELSE e

(* variant of suck: the reward is given whether or not the cell is dirty *)
suck_always_rewarded(e) ==
    [e EXCEPT !.grid = e.grid \ {<<e.agent_x, e.agent_y>>},
              !.performance = e.performance + 1]

(* variant of suck: the cell is cleaned and performance stays as it is *)
suck_unrewarded(e) ==
    IF is_dirty(e)
    THEN [e EXCEPT !.grid = e.grid \ {<<e.agent_x, e.agent_y>>}]
    ELSE e

(* the suck branch of accept_action *)
suck(e) ==
    IF is_dirty(e)
    THEN [e EXCEPT !.grid = e.grid \ {<<e.agent_x, e.agent_y>>},
                   !.performance = e.performance + 1]
    ELSE e

(* variant of budget_exhausted: > in place of >= *)
budget_exhausted_off_by_one(e) == e.actions_taken > e.max_actions

(* the budget test that opens accept_action *)
budget_exhausted(e) == e.actions_taken >= e.max_actions

(* variant of accept_action: a move into a wall is refused and costs no step *)
accept_action_wall_refused(e, action) ==
    IF budget_exhausted(e)
    THEN [env |-> e, ret |-> FALSE]
    ELSE IF action \in Movement /\ move(e, action) = e
    THEN [env |-> e, ret |-> FALSE]
    ELSE LET e1 == [e EXCEPT !.actions_taken = e.actions_taken + 1]
             e2 == IF action \in Movement THEN move(e1, action)
                   ELSE IF action = "suck" THEN suck(e1)
                   ELSE e1
         IN  [env |-> e2, ret |-> TRUE]

(* Environment.accept_action: the environment afterwards and the value returned *)
accept_action(e, action) ==
    IF budget_exhausted(e)
    THEN [env |-> e, ret |-> FALSE]
    ELSE LET e1 == [e EXCEPT !.actions_taken = e.actions_taken + 1]
             e2 == IF action \in Movement THEN move(e1, action)
                   ELSE IF action = "suck" THEN suck(e1)
                   ELSE e1
         IN  [env |-> e2, ret |-> TRUE]

(* variant of is_finished: completion_reason is written without the None test *)
is_finished_overwriting(e) ==
    IF e.actions_taken >= e.max_actions
    THEN [env |-> [e EXCEPT !.completion_reason = "max_steps_reached"], ret |-> TRUE]
    ELSE IF all_dirt_cleaned(e)
    THEN [env |-> [e EXCEPT !.completion_reason = "all_cleaned"], ret |-> TRUE]
    ELSE [env |-> e, ret |-> FALSE]

(* variant of is_finished: True is returned only inside the None test *)
is_finished_reported_once(e) ==
    IF e.actions_taken >= e.max_actions /\ e.completion_reason = "None"
    THEN [env |-> [e EXCEPT !.completion_reason = "max_steps_reached"], ret |-> TRUE]
    ELSE IF all_dirt_cleaned(e) /\ e.completion_reason = "None"
    THEN [env |-> [e EXCEPT !.completion_reason = "all_cleaned"], ret |-> TRUE]
    ELSE [env |-> e, ret |-> FALSE]

(* Environment.is_finished: records completion_reason the first time it is true *)
is_finished(e) ==
    IF e.actions_taken >= e.max_actions
    THEN [env |-> IF e.completion_reason = "None"
                  THEN [e EXCEPT !.completion_reason = "max_steps_reached"]
                  ELSE e,
          ret |-> TRUE]
    ELSE IF all_dirt_cleaned(e)
    THEN [env |-> IF e.completion_reason = "None"
                  THEN [e EXCEPT !.completion_reason = "all_cleaned"]
                  ELSE e,
          ret |-> TRUE]
    ELSE [env |-> e, ret |-> FALSE]

(***************************************************************************)
(* Request handlers (src/environment_server.py)                            *)
(***************************************************************************)
(* the parameter checks of the create_environment route *)
valid_parameters(sizeX, sizeY, init_posX, init_posY, dirt_rate) ==
    /\ 1 <= sizeX /\ sizeX <= 256 /\ 1 <= sizeY /\ sizeY <= 256
    /\ 0 <= init_posX /\ init_posX < sizeX /\ 0 <= init_posY /\ init_posY < sizeY
    /\ 0 <= dirt_rate /\ dirt_rate <= 100

(* POST /api/environment: the session right after its creation *)
create_environment ==
    \E sizeX \in SizesX, sizeY \in SizesY, dirt_rate \in DirtRates :
      \E init_posX \in 0 .. sizeX - 1, init_posY \in 0 .. sizeY - 1 :
        \E dirty_positions \in SUBSET Cells(sizeX, sizeY) :
          /\ valid_parameters(sizeX, sizeY, init_posX, init_posY, dirt_rate)
          /\ num_dirty(sizeX, sizeY, dirt_rate) <= MaxDirty
          /\ Cardinality(dirty_positions) = num_dirty(sizeX, sizeY, dirt_rate)
          /\ env = Environment(sizeX, sizeY, init_posX, init_posY, dirt_rate, dirty_positions)
          /\ resp = [ op |-> "create", action |-> "None", success |-> TRUE,
                      reward |-> 0, is_finished |-> FALSE,
                      completion_reason |-> "None" ]

(* POST /api/environment/<id>/action *)
execute_action(action) ==
    LET prev_performance == env.performance
        r == accept_action(env, action)
        f == is_finished(r.env)
    IN  /\ env' = f.env
        /\ resp' = [ op |-> "act", action |-> action, success |-> r.ret,
                     reward |-> r.env.performance - prev_performance,
                     is_finished |-> f.ret,
                     completion_reason |-> f.env.completion_reason ]

(* GET /api/environment/<id>/sense *)
sense_environment ==
    LET f == is_finished(env)
    IN  /\ env' = f.env
        /\ resp' = [ op |-> "sense", action |-> "None", success |-> TRUE,
                     reward |-> 0, is_finished |-> f.ret,
                     completion_reason |-> f.env.completion_reason ]

(* GET /api/environment/<id>/state *)
get_environment_state ==
    LET f == is_finished(env)
    IN  /\ env' = f.env
        /\ resp' = [ op |-> "state", action |-> "None", success |-> TRUE,
                     reward |-> 0, is_finished |-> f.ret,
                     completion_reason |-> f.env.completion_reason ]

(* GET /api/environments: the summary of the session *)
list_environments ==
    LET f == is_finished(env)
    IN  /\ env' = f.env
        /\ resp' = [ op |-> "list", action |-> "None", success |-> TRUE,
                     reward |-> 0, is_finished |-> f.ret,
                     completion_reason |-> "None" ]

(* the registry while Spec follows its one session *)
RegistryAside ==
    /\ environments = <<>>
    /\ used = {}
    /\ clock = 0
    /\ req = [op |-> "none"]
    /\ out = [op |-> "none"]
    /\ deleted = {}

(* no thread is creating a session while Spec or SpecReg runs *)
SeedAside ==
    /\ rng = 0
    /\ lock = "None"
    /\ threads = <<>>

(* no session has been removed and no agent process runs *)
RestAside ==
    /\ orphans = <<>>
    /\ agent = [mode |-> "none"]
    /\ files = <<>>
    /\ shown = <<>>

Init == create_environment /\ RegistryAside /\ SeedAside /\ RestAside

Act == \E action \in Action : execute_action(action)

Next ==
    \/ Act /\ UNCHANGED <<regvars, seedvars, restvars>>
    \/ sense_environment /\ UNCHANGED <<regvars, seedvars, restvars>>
    \/ get_environment_state /\ UNCHANGED <<regvars, seedvars, restvars>>
    \/ list_environments /\ UNCHANGED <<regvars, seedvars, restvars>>

Spec == Init /\ [][Next]_vars

(***************************************************************************)
(* EnvironmentServer (src/environment_server.py): the registry.  Each      *)
(* method runs under self.lock, so each is one step.                       *)
(***************************************************************************)
(* str.lower() on the action strings tried *)
lower(action_str) ==
    CASE action_str = "SUCK" -> "suck"
      [] OTHER               -> action_str

(* the keys of action_map *)
action_map == Action

(* EnvironmentServer.create_environment: no check of its own *)
server_create_environment(envs, env_id, sizeX, sizeY, init_posX, init_posY, dirt_rate, dirty_positions, now) ==
    envs @@ (env_id :> [ environment |-> Environment(sizeX, sizeY, init_posX, init_posY,
                                                    dirt_rate, dirty_positions),
                         created_at  |-> now,
                         last_access |-> now ])

(* variant of get_environment: the dictionary makes an entry for a key it lacks *)
get_environment_defaultdict(envs, env_id, now) ==
    IF env_id \in DOMAIN envs
    THEN [environments |-> [envs EXCEPT ![env_id].last_access = now], found |-> TRUE]
    ELSE [environments |-> envs @@ (env_id :> [ environment |-> Environment(1, 1, 0, 0, 0, {}),
                                                created_at  |-> now,
                                                last_access |-> now ]),
          found |-> TRUE]

(* EnvironmentServer.get_environment *)
get_environment(envs, env_id, now) ==
    IF env_id \in DOMAIN envs
    THEN [environments |-> [envs EXCEPT ![env_id].last_access = now], found |-> TRUE]
    ELSE [environments |-> envs, found |-> FALSE]

(* variant of delete_environment: pop with a default, True whatever was there *)
delete_environment_pop(envs, env_id) ==
    [environments |-> [i \in DOMAIN envs \ {env_id} |-> envs[i]], ret |-> TRUE]

(* EnvironmentServer.delete_environment *)
delete_environment(envs, env_id) ==
    IF env_id \in DOMAIN envs
    THEN [environments |-> [i \in DOMAIN envs \ {env_id} |-> envs[i]], ret |-> TRUE]
    ELSE [environments |-> envs, ret |-> FALSE]

(* variant of too_old: >= in place of > *)
too_old_inclusive(current_time, last_access, max_age) ==
    current_time - last_access >= max_age

(* the age test of cleanup_old_environments *)
too_old(current_time, last_access, max_age) == current_time - last_access > max_age

(* EnvironmentServer.cleanup_old_environments *)
cleanup_old_environments(envs, max_age, current_time) ==
    LET to_delete == {i \in DOMAIN envs : too_old(current_time, envs[i].last_access, max_age)}
    IN  [environments |-> [i \in DOMAIN envs \ to_delete |-> envs[i]],
         ret |-> Cardinality(to_delete)]

(* variant of parameter_error: <= in place of < in the position test *)
parameter_error_off_by_one(sizeX, sizeY, init_posX, init_posY, dirt_rate) ==
    IF ~(1 <= sizeX /\ sizeX <= 256 /\ 1 <= sizeY /\ sizeY <= 256)
    THEN "Invalid size parameters"
    ELSE IF ~(0 <= init_posX /\ init_posX <= sizeX /\ 0 <= init_posY /\ init_posY <= sizeY)
    THEN "Invalid initial position"
    ELSE IF ~(0 <= dirt_rate /\ dirt_rate <= 100)
    THEN "Invalid dirt rate"
    ELSE "None"

(* the error the create_environment route answers with, "None" if none *)
parameter_error(sizeX, sizeY, init_posX, init_posY, dirt_rate) ==
    IF ~(1 <= sizeX /\ sizeX <= 256 /\ 1 <= sizeY /\ sizeY <= 256)
    THEN "Invalid size parameters"
    ELSE IF ~(0 <= init_posX /\ init_posX < sizeX /\ 0 <= init_posY /\ init_posY < sizeY)
    THEN "Invalid initial position"
    ELSE IF ~(0 <= dirt_rate /\ dirt_rate <= 100)
    THEN "Invalid dirt rate"
    ELSE "None"

(* POST /api/environment *)
route_create_environment(sizeX, sizeY, init_posX, init_posY, dirt_rate) ==
    LET error == parameter_error(sizeX, sizeY, init_posX, init_posY, dirt_rate)
    IN  IF error # "None"
        THEN /\ out' = [op |-> "create", status |-> 400, error |-> error]
             /\ UNCHANGED <<environments, used, clock, deleted>>
        ELSE \E env_id \in Ids \ used :
               \E dirty_positions \in SUBSET Cells(sizeX, sizeY) :
                 /\ Cardinality(dirty_positions) = num_dirty(sizeX, sizeY, dirt_rate)
                 /\ environments' = server_create_environment(environments, env_id,
                                       sizeX, sizeY, init_posX, init_posY, dirt_rate,
                                       dirty_positions, clock)
                 /\ used' = used \cup {env_id}
                 /\ out' = [ op |-> "create", status |-> 201, environment_id |-> env_id,
                             sizeX |-> sizeX, sizeY |-> sizeY,
                             initial_position |-> <<init_posX, init_posY>>,
                             dirt_rate |-> dirt_rate ]
                 /\ UNCHANGED <<clock, deleted>>

(* variant of action_response: a name action_map lacks is taken as idle *)
action_response_default_idle(e, action_str) ==
    IF action_str = ""
    THEN [env |-> e, out |-> [op |-> "act", status |-> 400, error |-> "Action required"]]
    ELSE LET name == IF lower(action_str) \in action_map THEN lower(action_str) ELSE "idle"
             r == accept_action(e, name)
             f == is_finished(r.env)
         IN  [env |-> f.env,
              out |-> [ op |-> "act", status |-> 200, success |-> r.ret,
                        action |-> action_str,
                        previous_state |-> [ position |-> <<e.agent_x, e.agent_y>>,
                                             is_dirty |-> is_dirty(e),
                                             performance |-> e.performance ],
                        new_state |-> [ position |-> <<r.env.agent_x, r.env.agent_y>>,
                                        is_dirty |-> is_dirty(r.env),
                                        performance |-> r.env.performance,
                                        actions_taken |-> r.env.actions_taken,
                                        actions_remaining |-> get_actions_remaining(r.env),
                                        is_finished |-> f.ret,
                                        completion_reason |-> f.env.completion_reason ],
                        reward |-> r.env.performance - e.performance ]]

(* variant of action_response: prev_performance is read after accept_action *)
action_response_stale_reward(e, action_str) ==
    IF action_str = ""
    THEN [env |-> e, out |-> [op |-> "act", status |-> 400, error |-> "Action required"]]
    ELSE IF lower(action_str) \notin action_map
    THEN [env |-> e, out |-> [op |-> "act", status |-> 400, error |-> "Invalid action"]]
    ELSE LET r == accept_action(e, lower(action_str))
             f == is_finished(r.env)
         IN  [env |-> f.env,
              out |-> [ op |-> "act", status |-> 200, success |-> r.ret,
                        action |-> action_str,
                        previous_state |-> [ position |-> <<e.agent_x, e.agent_y>>,
                                             is_dirty |-> is_dirty(e),
                                             performance |-> r.env.performance ],
                        new_state |-> [ position |-> <<r.env.agent_x, r.env.agent_y>>,
                                        is_dirty |-> is_dirty(r.env),
                                        performance |-> r.env.performance,
                                        actions_taken |-> r.env.actions_taken,
                                        actions_remaining |-> get_actions_remaining(r.env),
                                        is_finished |-> f.ret,
                                        completion_reason |-> f.env.completion_reason ],
                        reward |-> r.env.performance - r.env.performance ]]

(* execute_action from the reading of the request body on *)
action_response(e, action_str) ==
    IF action_str = ""
    THEN [env |-> e, out |-> [op |-> "act", status |-> 400, error |-> "Action required"]]
    ELSE IF lower(action_str) \notin action_map
    THEN [env |-> e, out |-> [op |-> "act", status |-> 400, error |-> "Invalid action"]]
    ELSE LET prev_performance == e.performance
             prev_position    == <<e.agent_x, e.agent_y>>
             prev_dirty       == is_dirty(e)
             r == accept_action(e, lower(action_str))
             f == is_finished(r.env)
         IN  [env |-> f.env,
              out |-> [ op |-> "act", status |-> 200, success |-> r.ret,
                        action |-> action_str,
                        previous_state |-> [ position |-> prev_position,
                                             is_dirty |-> prev_dirty,
                                             performance |-> prev_performance ],
                        new_state |-> [ position |-> <<r.env.agent_x, r.env.agent_y>>,
                                        is_dirty |-> is_dirty(r.env),
                                        performance |-> r.env.performance,
                                        actions_taken |-> r.env.actions_taken,
                                        actions_remaining |-> get_actions_remaining(r.env),
                                        is_finished |-> f.ret,
                                        completion_reason |-> f.env.completion_reason ],
                        reward |-> r.env.performance - prev_performance ]]

(* variant of route_execute_action: the action name is checked before the lookup *)
route_execute_action_validating_first(env_id, action_str) ==
    IF action_str = "" \/ lower(action_str) \notin action_map
    THEN /\ out' = [op |-> "act", status |-> 400, error |-> "Invalid action"]
         /\ UNCHANGED <<environments, used, clock, deleted>>
    ELSE LET g == get_environment(environments, env_id, clock)
         IN  IF ~g.found
             THEN /\ out' = [op |-> "act", status |-> 404, error |-> "Environment not found"]
                  /\ UNCHANGED <<environments, used, clock, deleted>>
             ELSE LET a == action_response(g.environments[env_id].environment, action_str)
                  IN  /\ environments' = [g.environments EXCEPT ![env_id].environment = a.env]
                      /\ out' = a.out
                      /\ UNCHANGED <<used, clock, deleted>>

(* variant of route_execute_action: every session of the registry shares  *)
(* the world the action is applied to                                      *)
route_execute_action_shared_world(env_id, action_str) ==
    LET g == get_environment(environments, env_id, clock)
    IN  IF ~g.found
        THEN /\ out' = [op |-> "act", status |-> 404, error |-> "Environment not found"]
             /\ UNCHANGED <<environments, used, clock, deleted>>
        ELSE LET a == action_response(g.environments[env_id].environment, action_str)
             IN  /\ environments' = [i \in DOMAIN g.environments |->
                                       [g.environments[i] EXCEPT !.environment = a.env]]
                 /\ out' = a.out
                 /\ UNCHANGED <<used, clock, deleted>>

(* POST /api/environment/<env_id>/action *)
route_execute_action(env_id, action_str) ==
    LET g == get_environment(environments, env_id, clock)
    IN  IF ~g.found
        THEN /\ out' = [op |-> "act", status |-> 404, error |-> "Environment not found"]
             /\ UNCHANGED <<environments, used, clock, deleted>>
        ELSE LET a == action_response(g.environments[env_id].environment, action_str)
             IN  /\ environments' = [g.environments EXCEPT ![env_id].environment = a.env]
                 /\ out' = a.out
                 /\ UNCHANGED <<used, clock, deleted>>

(* GET /api/environment/<env_id>/sense *)
route_sense_environment(env_id) ==
    LET g == get_environment(environments, env_id, clock)
    IN  IF ~g.found
        THEN /\ out' = [op |-> "sense", status |-> 404, error |-> "Environment not found"]
             /\ UNCHANGED <<environments, used, clock, deleted>>
        ELSE LET e == g.environments[env_id].environment
                 f == is_finished(e)
             IN  /\ environments' = [g.environments EXCEPT ![env_id].environment = f.env]
                 /\ out' = [ op |-> "sense", status |-> 200,
                             position |-> <<e.agent_x, e.agent_y>>,
                             is_dirty |-> is_dirty(e),
                             actions_remaining |-> get_actions_remaining(e),
                             is_finished |-> f.ret,
                             completion_reason |-> f.env.completion_reason ]
                 /\ UNCHANGED <<used, clock, deleted>>

(* GET /api/environment/<env_id>/state *)
route_get_environment_state(env_id) ==
    LET g == get_environment(environments, env_id, clock)
    IN  IF ~g.found
        THEN /\ out' = [op |-> "state", status |-> 404, error |-> "Environment not found"]
             /\ UNCHANGED <<environments, used, clock, deleted>>
        ELSE LET e == g.environments[env_id].environment
                 f == is_finished(e)
             IN  /\ environments' = [g.environments EXCEPT ![env_id].environment = f.env]
                 /\ out' = [ op |-> "state", status |-> 200, environment_id |-> env_id,
                             agent_position |-> <<e.agent_x, e.agent_y>>,
                             is_dirty |-> is_dirty(e),
                             performance |-> e.performance,
                             actions_taken |-> e.actions_taken,
                             actions_remaining |-> get_actions_remaining(e),
                             is_finished |-> f.ret,
                             completion_reason |-> f.env.completion_reason,
                             grid |-> e.grid ]
                 /\ UNCHANGED <<used, clock, deleted>>

(* DELETE /api/environment/<env_id> *)
route_delete_environment(env_id) ==
    LET d == delete_environment(environments, env_id)
    IN  /\ environments' = d.environments
        /\ out' = IF d.ret
                  THEN [op |-> "delete", status |-> 200, environment_id |-> env_id]
                  ELSE [op |-> "delete", status |-> 404, environment_id |-> env_id]
        /\ deleted' = IF d.ret THEN deleted \cup {env_id} ELSE deleted
        /\ UNCHANGED <<used, clock>>

(* POST /api/cleanup *)
route_cleanup_environments(max_age) ==
    LET c == cleanup_old_environments(environments, max_age, clock)
    IN  /\ environments' = c.environments
        /\ out' = [op |-> "cleanup", status |-> 200, deleted_environments |-> c.ret]
        /\ UNCHANGED <<used, clock, deleted>>

(* variant of route_list_environments: reading an entry counts as an access *)
route_list_environments_touching ==
    LET finished == [i \in DOMAIN environments |-> is_finished(environments[i].environment)]
    IN  /\ environments' = [i \in DOMAIN environments |->
                              [environments[i] EXCEPT !.environment = finished[i].env,
                                                      !.last_access = clock]]
        /\ out' = [ op |-> "list", status |-> 200,
                    environments |-> { [ environment_id |-> i,
                                         last_access |-> clock ] : i \in DOMAIN environments } ]
        /\ UNCHANGED <<used, clock, deleted>>

(* GET /api/environments *)
route_list_environments ==
    LET finished == [i \in DOMAIN environments |-> is_finished(environments[i].environment)]
    IN  /\ environments' = [i \in DOMAIN environments |->
                              [environments[i] EXCEPT !.environment = finished[i].env]]
        /\ out' = [ op |-> "list", status |-> 200,
                    environments |->
                      { [ environment_id |-> i,
                          created_at |-> environments[i].created_at,
                          last_access |-> environments[i].last_access,
                          size |-> <<environments[i].environment.sizeX,
                                     environments[i].environment.sizeY>>,
                          agent_position |-> <<environments[i].environment.agent_x,
                                               environments[i].environment.agent_y>>,
                          performance |-> environments[i].environment.performance,
                          actions_taken |-> environments[i].environment.actions_taken,
                          is_finished |-> finished[i].ret ] : i \in DOMAIN environments } ]
        /\ UNCHANGED <<used, clock, deleted>>

(* GET /api/health *)
route_health_check ==
    /\ out' = [ op |-> "health", status |-> 200,
                active_environments |-> Cardinality(DOMAIN environments),
                timestamp |-> clock ]
    /\ UNCHANGED <<environments, used, clock, deleted>>

(* time passes *)
Tick ==
    /\ clock < MaxClock
    /\ clock' = clock + 1
    /\ req' = [op |-> "tick"]
    /\ UNCHANGED <<environments, used, out, deleted>>

(* the session of Spec while the registry is followed *)
SessionAside ==
    /\ env = Environment(1, 1, 0, 0, 0, {})
    /\ resp = [op |-> "none"]

InitReg ==
    /\ environments = <<>>
    /\ used = {}
    /\ clock = 0
    /\ req = [op |-> "none"]
    /\ out = [op |-> "none"]
    /\ deleted = {}
    /\ SessionAside
    /\ SeedAside
    /\ RestAside

RegCreate ==
    \E p \in CreateRequests :
      /\ req' = [op |-> "create", params |-> p]
      /\ route_create_environment(p[1], p[2], p[3], p[4], p[5])

(* a session of the registry is given at most MaxRegSteps actions *)
RegAct ==
    \E env_id \in Ids, action_str \in ActionStrings :
      /\ (env_id \in DOMAIN environments /\ lower(action_str) \in action_map)
           => environments[env_id].environment.actions_taken < MaxRegSteps
      /\ req' = [op |-> "act", env_id |-> env_id, action |-> action_str]
      /\ route_execute_action(env_id, action_str)

RegSense ==
    \E env_id \in Ids :
      /\ req' = [op |-> "sense", env_id |-> env_id]
      /\ route_sense_environment(env_id)

RegState ==
    \E env_id \in Ids :
      /\ req' = [op |-> "state", env_id |-> env_id]
      /\ route_get_environment_state(env_id)

RegDelete ==
    \E env_id \in Ids :
      /\ req' = [op |-> "delete", env_id |-> env_id]
      /\ route_delete_environment(env_id)

RegCleanup ==
    \E max_age \in MaxAges :
      /\ req' = [op |-> "cleanup", max_age |-> max_age]
      /\ route_cleanup_environments(max_age)

RegList ==
    /\ req' = [op |-> "list"]
    /\ route_list_environments

RegHealth ==
    /\ req' = [op |-> "health"]
    /\ route_health_check

NextReg ==
    \/ RegCreate /\ UNCHANGED <<vars, seedvars, restvars>>
    \/ RegAct /\ UNCHANGED <<vars, seedvars, restvars>>
    \/ RegSense /\ UNCHANGED <<vars, seedvars, restvars>>
    \/ RegState /\ UNCHANGED <<vars, seedvars, restvars>>
    \/ RegDelete /\ UNCHANGED <<vars, seedvars, restvars>>
    \/ RegCleanup /\ UNCHANGED <<vars, seedvars, restvars>>
    \/ RegList /\ UNCHANGED <<vars, seedvars, restvars>>
    \/ RegHealth /\ UNCHANGED <<vars, seedvars, restvars>>
    \/ Tick /\ UNCHANGED <<vars, seedvars, restvars>>

SpecReg == InitReg /\ [][NextReg]_regvars

(***************************************************************************)
(* EnvironmentServer.create_environment called without the route, as any   *)
(* code of the process may call it (env_server is a module global).        *)
(***************************************************************************)
(* Environment.__init__ and _initialize_dirt raise only where numpy or     *)
(* random.sample do: np.zeros on a negative dimension, random.sample on a  *)
(* count that is negative or larger than the population                    *)
construction_raises(sizeX, sizeY, dirt_rate) ==
    \/ sizeX < 0
    \/ sizeY < 0
    \/ num_dirty(sizeX, sizeY, dirt_rate) < 0
    \/ num_dirty(sizeX, sizeY, dirt_rate) > sizeX * sizeY

(* env_server.create_environment(sizeX, sizeY, init_posX, init_posY, dirt_rate) *)
direct_create_environment(sizeX, sizeY, init_posX, init_posY, dirt_rate) ==
    \E env_id \in Ids \ used :
      /\ used' = used \cup {env_id}
      /\ IF construction_raises(sizeX, sizeY, dirt_rate)
         THEN /\ out' = [op |-> "direct_create", raised |-> TRUE,
                         environment_id |-> "None"]
              /\ UNCHANGED <<environments, clock, deleted>>
         ELSE \E dirty_positions \in SUBSET Cells(sizeX, sizeY) :
                /\ Cardinality(dirty_positions) = num_dirty(sizeX, sizeY, dirt_rate)
                /\ environments' = server_create_environment(environments, env_id,
                                      sizeX, sizeY, init_posX, init_posY, dirt_rate,
                                      dirty_positions, clock)
                /\ out' = [op |-> "direct_create", raised |-> FALSE,
                           environment_id |-> env_id]
                /\ UNCHANGED <<clock, deleted>>

DirectCreate ==
    \E p \in DirectRequests :
      /\ req' = [op |-> "direct_create", params |-> p]
      /\ direct_create_environment(p[1], p[2], p[3], p[4], p[5])

NextDirect ==
    \/ DirectCreate /\ UNCHANGED <<vars, seedvars, restvars>>
    \/ RegDelete /\ UNCHANGED <<vars, seedvars, restvars>>
    \/ Tick /\ UNCHANGED <<vars, seedvars, restvars>>

SpecDirect == InitReg /\ [][NextDirect]_regvars

(***************************************************************************)
(* Creations side by side.  Flask serves each request on its own thread    *)
(* (threaded=True) and the interpreter may switch threads between any two  *)
(* statements, so EnvironmentServer.create_environment is followed         *)
(* statement by statement.  The random module has one generator for the    *)
(* whole process: random.seed sets its state, random.sample reads and      *)
(* advances it.  The generator is a small one here: its state is a number  *)
(* below RngModulus.                                                       *)
(***************************************************************************)
(* random.seed(a): the state is a function of a alone *)
seed_state(a) == a % RngModulus

(* the state after one draw *)
next_state(state) == (3 * state + 1) % RngModulus

(* the list [(x, y) for x in range(sizeX) for y in range(sizeY)] *)
cell_list(sizeX, sizeY) ==
    [i \in 1 .. sizeX * sizeY |-> <<(i - 1) \div sizeY, (i - 1) % sizeY>>]

(* a list without its i-th element *)
without(list, i) ==
    [j \in 1 .. Len(list) - 1 |-> IF j < i THEN list[j] ELSE list[j + 1]]

RECURSIVE sample(_, _, _)
(* random.sample(population, k) from the generator state: the cells drawn  *)
(* and the state left behind                                               *)
sample(population, k, state) ==
    IF k = 0
    THEN [picked |-> {}, state |-> state]
    ELSE LET i    == (state % Len(population)) + 1
             rest == sample(without(population, i), k - 1, next_state(state))
         IN  [picked |-> {population[i]} \cup rest.picked, state |-> rest.state]

(* variant of lock_free: the with statement does not wait *)
lock_free_always(l) == l \in {"None"} \cup Threads

(* with self.lock: entered only while no thread holds the lock *)
lock_free(l) == l = "None"

(* a thread that is not inside create_environment *)
idle_thread ==
    [ pc |-> "idle", sizeX |-> 0, sizeY |-> 0, init_posX |-> 0, init_posY |-> 0,
      dirt_rate |-> 0, seed |-> <<>>, env_id |-> "None", dirty_positions |-> {} ]

InitSeed ==
    /\ rng \in 0 .. RngModulus - 1
    /\ lock = "None"
    /\ threads = [t \in Threads |-> idle_thread]
    /\ environments = <<>>
    /\ used = {}
    /\ clock = 0
    /\ req = [op |-> "none"]
    /\ out = [op |-> "none"]
    /\ deleted = {}
    /\ SessionAside
    /\ RestAside

(* the call, and env_id = str(uuid.uuid4()) *)
Call(t) ==
    /\ threads[t].pc = "idle"
    /\ \E p \in SeedRequests, env_id \in Uuids \ used :
         /\ threads' = [threads EXCEPT ![t] =
                          [ pc |-> "lock", sizeX |-> p[1], sizeY |-> p[2],
                            init_posX |-> p[3], init_posY |-> p[4],
                            dirt_rate |-> p[5], seed |-> p[6], env_id |-> env_id,
                            dirty_positions |-> {} ]]
         /\ used' = used \cup {env_id}
    /\ UNCHANGED <<rng, lock, environments>>

(* with self.lock: and the assignments of Environment.__init__ *)
Acquire(t) ==
    /\ threads[t].pc = "lock"
    /\ lock_free(lock)
    /\ lock' = t
    /\ threads' = [threads EXCEPT ![t].pc = "seed"]
    /\ UNCHANGED <<rng, used, environments>>

(* if seed is not None: random.seed(seed) *)
Seed(t) ==
    /\ threads[t].pc = "seed"
    /\ rng' = IF threads[t].seed # <<>> THEN seed_state(threads[t].seed[1]) ELSE rng
    /\ threads' = [threads EXCEPT ![t].pc = "sample"]
    /\ UNCHANGED <<lock, used, environments>>

(* self._initialize_dirt() *)
Sample(t) ==
    /\ threads[t].pc = "sample"
    /\ LET th == threads[t]
           s  == sample(cell_list(th.sizeX, th.sizeY),
                        num_dirty(th.sizeX, th.sizeY, th.dirt_rate), rng)
       IN  /\ rng' = s.state
           /\ threads' = [threads EXCEPT ![t].pc = "insert",
                                         ![t].dirty_positions = s.picked]
    /\ UNCHANGED <<lock, used, environments>>

(* self.environments[env_id] = {...}, the end of the with block, return *)
Insert(t) ==
    /\ threads[t].pc = "insert"
    /\ LET th == threads[t]
       IN  environments' = server_create_environment(environments, th.env_id,
                              th.sizeX, th.sizeY, th.init_posX, th.init_posY,
                              th.dirt_rate, th.dirty_positions, clock)
    /\ lock' = "None"
    /\ threads' = [threads EXCEPT ![t].pc = "done"]
    /\ UNCHANGED <<rng, used>>

NextSeed ==
    \/ \E t \in Threads : Call(t) /\ UNCHANGED <<vars, clock, req, out, deleted, restvars>>
    \/ \E t \in Threads : Acquire(t) /\ UNCHANGED <<vars, clock, req, out, deleted, restvars>>
    \/ \E t \in Threads : Seed(t) /\ UNCHANGED <<vars, clock, req, out, deleted, restvars>>
    \/ \E t \in Threads : Sample(t) /\ UNCHANGED <<vars, clock, req, out, deleted, restvars>>
    \/ \E t \in Threads : Insert(t) /\ UNCHANGED <<vars, clock, req, out, deleted, restvars>>

SpecSeed == InitSeed /\ [][NextSeed]_<<seedvars, environments, used>>

(***************************************************************************)
(* The registry under concurrent requests.  Each request runs on its own   *)
(* thread; a thread is followed from one use of EnvironmentServer.lock to  *)
(* the next.  A lookup returns a reference to the Environment object: the  *)
(* object outlives its registry entry while a request still holds the      *)
(* reference: such objects are kept in orphans under their env_id.         *)
(* What a request does to an Environment is one step here; requests that   *)
(* overlap inside one Environment are followed in SpecRace.                *)
(***************************************************************************)
(* variant of deref: the request goes back to the registry for the object *)
deref_through_registry(envs, orph, env_id) ==
    IF env_id \in DOMAIN envs
    THEN [ok |-> TRUE, environment |-> envs[env_id].environment]
    ELSE [ok |-> FALSE, environment |-> orph[env_id]]

(* the object behind the reference env = env_server.get_environment(env_id) *)
deref(envs, orph, env_id) ==
    IF env_id \in DOMAIN envs
    THEN [ok |-> TRUE, environment |-> envs[env_id].environment]
    ELSE [ok |-> TRUE, environment |-> orph[env_id]]

(* the registry after the object behind the reference became e *)
stored_in_registry(envs, env_id, e) ==
    IF env_id \in DOMAIN envs
    THEN [envs EXCEPT ![env_id].environment = e]
    ELSE envs

(* the removed objects after the object behind the reference became e *)
stored_in_orphans(envs, orph, env_id, e) ==
    IF env_id \in DOMAIN envs
    THEN orph
    ELSE [orph EXCEPT ![env_id] = e]

(* a request of the threads thr holds a reference to the object of env_id *)
referenced(thr, env_id) ==
    \E t \in DOMAIN thr : thr[t].pc \in {"transition", "read"} /\ thr[t].env_id = env_id

(* the removed objects that the requests of thr still refer to *)
collected(orph, thr) ==
    [i \in {j \in DOMAIN orph : referenced(thr, j)} |-> orph[i]]

(* the removed objects after the registry went from envs to envs_after *)
orphaned(envs, envs_after, orph, thr) ==
    collected([i \in DOMAIN orph \cup (DOMAIN envs \ DOMAIN envs_after) |->
                 IF i \in DOMAIN orph THEN orph[i] ELSE envs[i].environment], thr)

(* variant of after_return: the lock is still held when the caller goes on *)
after_return_held(t) == t

(* the lock after a return from inside a with self.lock: block *)
after_return(t) == "None"

(* the lock at the end of a with self.lock: block *)
after_with(t) == "None"

(* the body of the responses of sense_environment and get_environment_state *)
read_response(kind, e) ==
    LET f == is_finished(e)
    IN  [env |-> f.env,
         out |-> [ op |-> kind, status |-> 200,
                   position |-> <<e.agent_x, e.agent_y>>,
                   is_dirty |-> is_dirty(e),
                   performance |-> e.performance,
                   actions_taken |-> e.actions_taken,
                   actions_remaining |-> get_actions_remaining(e),
                   is_finished |-> f.ret,
                   completion_reason |-> f.env.completion_reason ]]

(* one element of env_list *)
summary(envs, i) ==
    LET e == envs[i].environment
    IN  [ environment_id |-> i,
          created_at |-> envs[i].created_at,
          last_access |-> envs[i].last_access,
          size |-> <<e.sizeX, e.sizeY>>,
          agent_position |-> <<e.agent_x, e.agent_y>>,
          performance |-> e.performance,
          actions_taken |-> e.actions_taken,
          is_finished |-> is_finished(e).ret ]

(* a thread that serves no request *)
idle_server_thread ==
    [ pc |-> "idle", kind |-> "None", env_id |-> "None", action |-> "None",
      params |-> <<>>, dirty_positions |-> {}, max_age |-> 0, current_time |-> 0,
      todo |-> {}, seen |-> {}, listed |-> <<>> ]

InitLock ==
    /\ environments = <<>>
    /\ used = {}
    /\ clock = 0
    /\ req = [op |-> "none"]
    /\ out = [op |-> "none"]
    /\ deleted = {}
    /\ rng = 0
    /\ lock = "None"
    /\ threads = [t \in LockThreads |-> idle_server_thread]
    /\ SessionAside
    /\ RestAside

(* POST /api/environment: the checks of the route, then                    *)
(* env_server.create_environment up to env_id = str(uuid.uuid4())          *)
LockCreateBegin(t) ==
    /\ threads[t].pc = "idle"
    /\ \E p \in LockCreateRequests :
         LET error == parameter_error(p[1], p[2], p[3], p[4], p[5])
         IN  /\ req' = [op |-> "create", thread |-> t, params |-> p]
             /\ IF error # "None"
                THEN /\ out' = [op |-> "create", status |-> 400, error |-> error]
                     /\ UNCHANGED <<used, threads>>
                ELSE \E env_id \in Ids \ used :
                       /\ used' = used \cup {env_id}
                       /\ threads' = [threads EXCEPT ![t] =
                                        [idle_server_thread EXCEPT
                                           !.pc = "create_lock", !.kind = "create",
                                           !.env_id = env_id, !.params = p]]
                       /\ UNCHANGED out
    /\ UNCHANGED <<environments, orphans, lock, clock, deleted>>

(* with self.lock: *)
LockCreateAcquire(t) ==
    /\ threads[t].pc = "create_lock"
    /\ lock_free(lock)
    /\ lock' = t
    /\ threads' = [threads EXCEPT ![t].pc = "construct"]
    /\ req' = [op |-> "acquire", thread |-> t]
    /\ UNCHANGED <<environments, orphans, used, clock, out, deleted>>

(* env = Environment(sizeX, sizeY, init_posX, init_posY, dirt_rate, seed) *)
LockCreateConstruct(t) ==
    /\ threads[t].pc = "construct"
    /\ LET p == threads[t].params
       IN  \E dirty_positions \in SUBSET Cells(p[1], p[2]) :
             /\ Cardinality(dirty_positions) = num_dirty(p[1], p[2], p[5])
             /\ threads' = [threads EXCEPT ![t].pc = "insert",
                                           ![t].dirty_positions = dirty_positions]
    /\ req' = [op |-> "construct", thread |-> t]
    /\ UNCHANGED <<environments, orphans, used, lock, clock, out, deleted>>

(* self.environments[env_id] = {...}, the end of the with block, the response *)
LockCreateInsert(t) ==
    /\ threads[t].pc = "insert"
    /\ LET p == threads[t].params
       IN  /\ environments' = server_create_environment(environments, threads[t].env_id,
                                 p[1], p[2], p[3], p[4], p[5],
                                 threads[t].dirty_positions, clock)
           /\ out' = [ op |-> "create", status |-> 201,
                       environment_id |-> threads[t].env_id,
                       sizeX |-> p[1], sizeY |-> p[2],
                       initial_position |-> <<p[3], p[4]>>, dirt_rate |-> p[5] ]
    /\ lock' = after_with(t)
    /\ threads' = [threads EXCEPT ![t] = idle_server_thread]
    /\ req' = [op |-> "insert", thread |-> t, env_id |-> threads[t].env_id]
    /\ UNCHANGED <<orphans, used, clock, deleted>>

(* env = env_server.get_environment(env_id) of execute_action,             *)
(* sense_environment and get_environment_state, and the 404 answer         *)
LockLookup(t) ==
    /\ threads[t].pc = "idle"
    /\ lock_free(lock)
    /\ \E kind \in LockLookups, env_id \in Ids, action_str \in LockActionStrings :
         LET g == get_environment(environments, env_id, clock)
         IN  /\ kind # "act" => action_str = "suck"
             /\ (kind = "act" /\ g.found /\ lower(action_str) \in action_map)
                  => environments[env_id].environment.actions_taken < MaxRegSteps
             /\ req' = [op |-> "lookup", thread |-> t, kind |-> kind, env_id |-> env_id]
             /\ environments' = g.environments
             /\ IF g.found
                THEN /\ threads' = [threads EXCEPT ![t] =
                                      [idle_server_thread EXCEPT
                                         !.pc = IF kind = "act" THEN "transition" ELSE "read",
                                         !.kind = kind, !.env_id = env_id,
                                         !.action = IF kind = "act" THEN action_str
                                                                    ELSE "None"]]
                     /\ UNCHANGED out
                ELSE /\ out' = [op |-> kind, status |-> 404, error |-> "Environment not found"]
                     /\ UNCHANGED threads
    /\ lock' = after_return(t)
    /\ UNCHANGED <<orphans, used, clock, deleted>>

(* execute_action after the lookup: env.accept_action(action), the response *)
LockTransition(t) ==
    /\ threads[t].pc = "transition"
    /\ LET d == deref(environments, orphans, threads[t].env_id)
           r == action_response(d.environment, threads[t].action)
       IN  IF d.ok
           THEN /\ environments' = stored_in_registry(environments, threads[t].env_id, r.env)
                /\ orphans' = collected(stored_in_orphans(environments, orphans,
                                                         threads[t].env_id, r.env),
                                       [threads EXCEPT ![t] = idle_server_thread])
                /\ out' = r.out
           ELSE /\ out' = [op |-> "act", status |-> 500, error |-> "KeyError"]
                /\ orphans' = collected(orphans, [threads EXCEPT ![t] = idle_server_thread])
                /\ UNCHANGED environments
    /\ threads' = [threads EXCEPT ![t] = idle_server_thread]
    /\ req' = [op |-> "transition", thread |-> t, env_id |-> threads[t].env_id]
    /\ UNCHANGED <<used, lock, clock, deleted>>

(* sense_environment and get_environment_state after the lookup *)
LockRead(t) ==
    /\ threads[t].pc = "read"
    /\ LET d == deref(environments, orphans, threads[t].env_id)
           r == read_response(threads[t].kind, d.environment)
       IN  IF d.ok
           THEN /\ environments' = stored_in_registry(environments, threads[t].env_id, r.env)
                /\ orphans' = collected(stored_in_orphans(environments, orphans,
                                                         threads[t].env_id, r.env),
                                       [threads EXCEPT ![t] = idle_server_thread])
                /\ out' = r.out
           ELSE /\ out' = [op |-> threads[t].kind, status |-> 500, error |-> "KeyError"]
                /\ orphans' = collected(orphans, [threads EXCEPT ![t] = idle_server_thread])
                /\ UNCHANGED environments
    /\ threads' = [threads EXCEPT ![t] = idle_server_thread]
    /\ req' = [op |-> "read", thread |-> t, env_id |-> threads[t].env_id]
    /\ UNCHANGED <<used, lock, clock, deleted>>

(* DELETE /api/environment/<env_id> *)
LockDelete(t) ==
    /\ threads[t].pc = "idle"
    /\ lock_free(lock)
    /\ \E env_id \in Ids :
         LET d == delete_environment(environments, env_id)
         IN  /\ environments' = d.environments
             /\ orphans' = orphaned(environments, d.environments, orphans, threads)
             /\ out' = IF d.ret
                       THEN [op |-> "delete", status |-> 200, environment_id |-> env_id]
                       ELSE [op |-> "delete", status |-> 404, environment_id |-> env_id]
             /\ req' = [op |-> "delete", thread |-> t, env_id |-> env_id]
    /\ lock' = after_with(t)
    /\ UNCHANGED <<threads, used, clock, deleted>>

(* cleanup_old_environments up to current_time = time.time(), called by    *)
(* POST /api/cleanup or by cleanup_thread                                  *)
LockSweepBegin(t) ==
    /\ threads[t].pc = "idle"
    /\ \E max_age \in LockMaxAges :
         threads' = [threads EXCEPT ![t] =
                       [idle_server_thread EXCEPT !.pc = "sweep", !.kind = "cleanup",
                                                  !.max_age = max_age,
                                                  !.current_time = clock]]
    /\ req' = [op |-> "sweep_begin", thread |-> t]
    /\ UNCHANGED <<environments, orphans, used, lock, clock, out, deleted>>

(* the with block of cleanup_old_environments, and the response *)
LockSweepRun(t) ==
    /\ threads[t].pc = "sweep"
    /\ lock_free(lock)
    /\ LET c == cleanup_old_environments(environments, threads[t].max_age,
                                         threads[t].current_time)
       IN  /\ environments' = c.environments
           /\ orphans' = orphaned(environments, c.environments, orphans, threads)
           /\ out' = [op |-> "cleanup", status |-> 200, deleted_environments |-> c.ret]
    /\ lock' = after_with(t)
    /\ threads' = [threads EXCEPT ![t] = idle_server_thread]
    /\ req' = [op |-> "sweep", thread |-> t]
    /\ UNCHANGED <<used, clock, deleted>>

(* GET /api/environments: with env_server.lock: and the start of the loop  *)
(* over env_server.environments.items()                                    *)
LockListAcquire(t) ==
    /\ threads[t].pc = "idle"
    /\ lock_free(lock)
    /\ lock' = t
    /\ threads' = [threads EXCEPT ![t] =
                     [idle_server_thread EXCEPT !.pc = "list", !.kind = "list",
                                                !.todo = DOMAIN environments]]
    /\ req' = [op |-> "list_begin", thread |-> t]
    /\ UNCHANGED <<environments, orphans, used, clock, out, deleted>>

(* one round of the loop: env.is_finished() and env_list.append(...); the  *)
(* dictionary iterator raises RuntimeError once the dictionary has changed *)
LockListStep(t) ==
    /\ threads[t].pc = "list"
    /\ threads[t].todo # {}
    /\ req' = [op |-> "list_step", thread |-> t]
    /\ IF DOMAIN environments # threads[t].todo \cup threads[t].seen
       THEN /\ out' = [op |-> "list", status |-> 500, error |-> "RuntimeError"]
            /\ lock' = after_with(t)
            /\ threads' = [threads EXCEPT ![t] = idle_server_thread]
            /\ UNCHANGED environments
       ELSE \E i \in threads[t].todo :
              /\ environments' = [environments EXCEPT ![i].environment =
                                    is_finished(environments[i].environment).env]
              /\ threads' = [threads EXCEPT
                               ![t].todo = threads[t].todo \ {i},
                               ![t].seen = threads[t].seen \cup {i},
                               ![t].listed = Append(threads[t].listed,
                                                    summary(environments, i))]
              /\ UNCHANGED <<lock, out>>
    /\ UNCHANGED <<orphans, used, clock, deleted>>

(* the end of the loop and of the with block, the response *)
LockListEnd(t) ==
    /\ threads[t].pc = "list"
    /\ threads[t].todo = {}
    /\ out' = [op |-> "list", status |-> 200, environments |-> threads[t].listed]
    /\ lock' = after_with(t)
    /\ threads' = [threads EXCEPT ![t] = idle_server_thread]
    /\ req' = [op |-> "list_end", thread |-> t]
    /\ UNCHANGED <<environments, orphans, used, clock, deleted>>

(* GET /api/health: len(env_server.environments), read without the lock *)
LockHealth(t) ==
    /\ threads[t].pc = "idle"
    /\ out' = [ op |-> "health", status |-> 200,
                active_environments |-> Cardinality(DOMAIN environments),
                timestamp |-> clock ]
    /\ req' = [op |-> "health", thread |-> t]
    /\ UNCHANGED <<environments, orphans, threads, used, lock, clock, deleted>>

(* time passes *)
LockTick ==
    /\ clock < MaxClock
    /\ clock' = clock + 1
    /\ req' = [op |-> "tick"]
    /\ UNCHANGED <<environments, orphans, threads, used, lock, out, deleted>>

NextLock ==
    \/ \E t \in LockThreads : LockCreateBegin(t) /\ UNCHANGED <<vars, rng, agent, files, shown>>
    \/ \E t \in LockThreads : LockCreateAcquire(t) /\ UNCHANGED <<vars, rng, agent, files, shown>>
    \/ \E t \in LockThreads : LockCreateConstruct(t) /\ UNCHANGED <<vars, rng, agent, files, shown>>
    \/ \E t \in LockThreads : LockCreateInsert(t) /\ UNCHANGED <<vars, rng, agent, files, shown>>
    \/ \E t \in LockThreads : LockLookup(t) /\ UNCHANGED <<vars, rng, agent, files, shown>>
    \/ \E t \in LockThreads : LockTransition(t) /\ UNCHANGED <<vars, rng, agent, files, shown>>
    \/ \E t \in LockThreads : LockRead(t) /\ UNCHANGED <<vars, rng, agent, files, shown>>
    \/ \E t \in LockThreads : LockDelete(t) /\ UNCHANGED <<vars, rng, agent, files, shown>>
    \/ \E t \in LockThreads : LockSweepBegin(t) /\ UNCHANGED <<vars, rng, agent, files, shown>>
    \/ \E t \in LockThreads : LockSweepRun(t) /\ UNCHANGED <<vars, rng, agent, files, shown>>
    \/ \E t \in LockThreads : LockListAcquire(t) /\ UNCHANGED <<vars, rng, agent, files, shown>>
    \/ \E t \in LockThreads : LockListStep(t) /\ UNCHANGED <<vars, rng, agent, files, shown>>
    \/ \E t \in LockThreads : LockListEnd(t) /\ UNCHANGED <<vars, rng, agent, files, shown>>
    \/ \E t \in LockThreads : LockHealth(t) /\ UNCHANGED <<vars, rng, agent, files, shown>>
    \/ LockTick /\ UNCHANGED <<vars, rng, agent, files, shown>>

SpecLock == InitLock /\ [][NextLock]_<<regvars, lock, threads, orphans>>

(***************************************************************************)
(* Requests on one session side by side.  execute_action uses the          *)
(* Environment outside the registry lock, and Environment has no lock of   *)
(* its own, so the threads interleave statement by statement;              *)
(* x += 1 is a read followed by a write.  The session is looked up once    *)
(* and stays in the registry; the response is put together in one step.    *)
(* A request that no other request overlaps is one step (RaceAlone).       *)
(***************************************************************************)
(* a thread between two requests *)
idle_worker ==
    [ pc |-> "idle", action |-> "None", tmp |-> 0, prev_performance |-> 0,
      success |-> FALSE, finished |-> FALSE, requests |-> 0 ]

InitRace ==
    /\ \E p \in RaceRequests :
         \E dirty_positions \in SUBSET Cells(p[1], p[2]) :
           /\ Cardinality(dirty_positions) = num_dirty(p[1], p[2], p[5])
           /\ env = Environment(p[1], p[2], p[3], p[4], p[5], dirty_positions)
    /\ resp = [op |-> "none"]
    /\ threads = [t \in Workers |-> idle_worker]
    /\ rng = 0
    /\ lock = "None"
    /\ RegistryAside
    /\ RestAside

(* execute_action up to the call: prev_performance = env.get_performance() *)
RaceBegin(t) ==
    /\ threads[t].pc = "idle"
    /\ threads[t].requests < MaxRaceRequests
    /\ \E action \in RaceActions :
         threads' = [threads EXCEPT ![t] =
                       [ pc |-> "check", action |-> action, tmp |-> 0,
                         prev_performance |-> env.performance, success |-> FALSE,
                         finished |-> FALSE,
                         requests |-> threads[t].requests + 1 ]]
    /\ UNCHANGED <<env, resp>>

(* if self.actions_taken >= self.max_actions: return False *)
RaceCheck(t) ==
    /\ threads[t].pc = "check"
    /\ threads' = [threads EXCEPT ![t].pc = IF budget_exhausted(env) THEN "respond"
                                                                    ELSE "load"]
    /\ UNCHANGED <<env, resp>>

(* self.actions_taken += 1: the read *)
RaceLoad(t) ==
    /\ threads[t].pc = "load"
    /\ threads' = [threads EXCEPT ![t].pc = "store", ![t].tmp = env.actions_taken]
    /\ UNCHANGED <<env, resp>>

(* self.actions_taken += 1: the write; idle then returns True *)
RaceStore(t) ==
    /\ threads[t].pc = "store"
    /\ env' = [env EXCEPT !.actions_taken = threads[t].tmp + 1]
    /\ threads' = [threads EXCEPT ![t].pc = IF threads[t].action = "suck" THEN "test"
                                                                          ELSE "respond",
                                  ![t].tmp = 0, ![t].success = TRUE]
    /\ UNCHANGED resp

(* if self.is_dirty(): *)
RaceTest(t) ==
    /\ threads[t].pc = "test"
    /\ threads' = [threads EXCEPT ![t].pc = IF is_dirty(env) THEN "clear" ELSE "respond"]
    /\ UNCHANGED <<env, resp>>

(* self.grid[self.agent_y, self.agent_x] = 0 *)
RaceClear(t) ==
    /\ threads[t].pc = "clear"
    /\ env' = [env EXCEPT !.grid = env.grid \ {<<env.agent_x, env.agent_y>>}]
    /\ threads' = [threads EXCEPT ![t].pc = "perf_load"]
    /\ UNCHANGED resp

(* self.performance += 1: the read *)
RacePerfLoad(t) ==
    /\ threads[t].pc = "perf_load"
    /\ threads' = [threads EXCEPT ![t].pc = "perf_store", ![t].tmp = env.performance]
    /\ UNCHANGED <<env, resp>>

(* self.performance += 1: the write; return True *)
RacePerfStore(t) ==
    /\ threads[t].pc = "perf_store"
    /\ env' = [env EXCEPT !.performance = threads[t].tmp + 1]
    /\ threads' = [threads EXCEPT ![t].pc = "respond", ![t].tmp = 0]
    /\ UNCHANGED resp

(* execute_action after the call: new_performance = env.get_performance()  *)
(* and, as jsonify's argument is built, bool(env.is_finished())            *)
RaceFinished(t) ==
    /\ threads[t].pc = "respond"
    /\ LET f == is_finished(env)
       IN  /\ env' = f.env
           /\ threads' = [threads EXCEPT ![t].pc = "reason",
                                         ![t].tmp = env.performance,
                                         ![t].finished = f.ret]
    /\ UNCHANGED resp

(* getattr(env, 'completion_reason', None), the next entry of the same     *)
(* dictionary, and the response                                            *)
RaceRespond(t) ==
    /\ threads[t].pc = "reason"
    /\ resp' = [ op |-> "act", thread |-> t, action |-> threads[t].action,
                 success |-> threads[t].success,
                 reward |-> threads[t].tmp - threads[t].prev_performance,
                 is_finished |-> threads[t].finished,
                 completion_reason |-> env.completion_reason ]
    /\ threads' = [threads EXCEPT ![t] =
                      [idle_worker EXCEPT !.requests = threads[t].requests]]
    /\ UNCHANGED env

(* a request served while no other request is in flight *)
RaceAlone ==
    /\ \A t \in Workers : threads[t].pc = "idle"
    /\ \E action \in RaceActions : execute_action(action)
    /\ UNCHANGED threads

NextRace ==
    \/ RaceAlone /\ UNCHANGED <<rng, lock, regvars, restvars>>
    \/ \E t \in Workers : RaceBegin(t) /\ UNCHANGED <<rng, lock, regvars, restvars>>
    \/ \E t \in Workers : RaceCheck(t) /\ UNCHANGED <<rng, lock, regvars, restvars>>
    \/ \E t \in Workers : RaceLoad(t) /\ UNCHANGED <<rng, lock, regvars, restvars>>
    \/ \E t \in Workers : RaceStore(t) /\ UNCHANGED <<rng, lock, regvars, restvars>>
    \/ \E t \in Workers : RaceTest(t) /\ UNCHANGED <<rng, lock, regvars, restvars>>
    \/ \E t \in Workers : RaceClear(t) /\ UNCHANGED <<rng, lock, regvars, restvars>>
    \/ \E t \in Workers : RacePerfLoad(t) /\ UNCHANGED <<rng, lock, regvars, restvars>>
    \/ \E t \in Workers : RacePerfStore(t) /\ UNCHANGED <<rng, lock, regvars, restvars>>
    \/ \E t \in Workers : RaceFinished(t) /\ UNCHANGED <<rng, lock, regvars, restvars>>
    \/ \E t \in Workers : RaceRespond(t) /\ UNCHANGED <<rng, lock, regvars, restvars>>

SpecRace == InitRace /\ [][NextRace]_<<vars, threads>>

(***************************************************************************)
(* Properties                                                              *)
(***************************************************************************)
(* a response that carries the is_finished field *)
Reports(r) == r.op \in {"act", "sense", "state", "list"}

(* the two termination conditions, as the specification words them *)
MaxStepsReached(e) == e.actions_taken >= 1000

AllDirtCleaned(e) == e.grid = {}

(* the fields of the simulation other than the termination reason *)
World(e) == <<e.grid, e.agent_x, e.agent_y, e.performance, e.actions_taken>>

(* C1: once a session is terminal, for MaxStepsReached or for             *)
(* AllDirtCleaned, every act call returns success = false and leaves the  *)
(* dirt, the position, the performance and stepsTaken unchanged.          *)
C1_ActOnTerminalRejected ==
    [][ (env.completion_reason # "None" /\ resp'.op = "act")
          => (resp'.success = FALSE /\ World(env') = World(env)) ]_vars

(* C2: in every reachable state the agent is inside the grid:             *)
(* 0 <= x < width and 0 <= y < height.                                    *)
C2_AgentInsideGrid ==
    /\ 0 <= env.agent_x /\ env.agent_x < env.sizeX
    /\ 0 <= env.agent_y /\ env.agent_y < env.sizeY

(* a move was attempted against a wall of a one-cell-high grid *)
C2_Witness ==
    /\ resp.op = "act" /\ resp.action = "down" /\ resp.success
    /\ env.sizeY = 1 /\ env.agent_y = 0

(* C3: stepsTaken grows by exactly 1 on every act call that is not        *)
(* rejected, is unchanged on every rejected call, and never exceeds the   *)
(* step budget of 1000.                                                   *)
C3_StepsCountAcceptedCalls ==
    [][ /\ env'.actions_taken <= 1000
        /\ resp'.op = "act" /\ resp'.success
             => env'.actions_taken = env.actions_taken + 1
        /\ resp'.op = "act" /\ ~resp'.success
             => env'.actions_taken = env.actions_taken ]_vars

(* a call was rejected with the budget used up *)
C3_Witness ==
    resp.op = "act" /\ ~resp.success /\ env.actions_taken = 1000

(* C4: after any accepted action the reason is MaxStepsReached if         *)
(* stepsTaken equals the budget, else AllDirtCleaned if the dirt set is   *)
(* empty, else None.                                                      *)
C4_ReasonAfterAcceptedAction ==
    [][ (resp'.op = "act" /\ resp'.success)
          => env'.completion_reason =
               IF env'.actions_taken = 1000 THEN "max_steps_reached"
               ELSE IF env'.grid = {} THEN "all_cleaned"
               ELSE "None" ]_vars

(* C5: a session created with no dirty cell reports terminal only once    *)
(* stepsTaken has reached 1000, and then with reason MaxStepsReached.     *)
C5_DirtFreeEndsOnlyByMaxSteps ==
    (/\ num_dirty(env.sizeX, env.sizeY, env.dirt_rate) = 0
     /\ Reports(resp) /\ resp.is_finished)
      => (env.actions_taken = 1000 /\ env.completion_reason = "max_steps_reached")

(* C6: the termination reason changes at most once, from None to          *)
(* MaxStepsReached or AllDirtCleaned, and is then kept by every later     *)
(* act, sense, state and list; the value recorded is that of the          *)
(* condition that became true first (MaxStepsReached on a tie).  A        *)
(* condition is true with no reason recorded only before the first        *)
(* request, so the reason is recorded by the request that makes it true.  *)
C6_ReasonSetOnce ==
    [][ /\ env.completion_reason # "None"
             => env'.completion_reason = env.completion_reason
        /\ (env.completion_reason = "None"
              /\ (MaxStepsReached(env) \/ AllDirtCleaned(env)))
             => resp.op = "create"
        /\ (env.completion_reason = "None" /\ env'.completion_reason # "None")
             => IF MaxStepsReached(env) \/ AllDirtCleaned(env)
                THEN env'.completion_reason =
                       IF MaxStepsReached(env) THEN "max_steps_reached"
                       ELSE "all_cleaned"
                ELSE /\ MaxStepsReached(env') \/ AllDirtCleaned(env')
                     /\ env'.completion_reason =
                          IF MaxStepsReached(env') THEN "max_steps_reached"
                          ELSE "all_cleaned" ]_vars

(* both conditions hold and the reason recorded first is still in place *)
C6_Witness ==
    /\ env.completion_reason = "all_cleaned" /\ env.actions_taken = 1000
    /\ env.performance > 0

(* C7: Terminated is absorbing: once a response has reported              *)
(* terminal = true, every later act, sense, state and list response       *)
(* reports terminal = true.                                               *)
C7_TerminatedAbsorbing ==
    [][ (Reports(resp) /\ resp.is_finished)
          => (Reports(resp') /\ resp'.is_finished) ]_vars

(* a read that follows an act which already reported terminal *)
C7_Witness ==
    /\ resp.op = "sense" /\ resp.is_finished
    /\ env.completion_reason = "all_cleaned" /\ env.actions_taken > 1

(* C8: an accepted suck on a dirty cell removes exactly that cell and     *)
(* adds exactly 1 to performance; on a clean cell it changes neither; in  *)
(* both cases the call reports success and the position is unchanged.     *)
C8_SuckEffect ==
    [][ (resp'.op = "act" /\ resp'.action = "suck" /\ env.actions_taken < 1000)
          => LET cell == <<env.agent_x, env.agent_y>>
             IN  /\ resp'.success
                 /\ env'.agent_x = env.agent_x /\ env'.agent_y = env.agent_y
                 /\ IF cell \in env.grid
                    THEN /\ env'.grid = env.grid \ {cell}
                         /\ Cardinality(env'.grid) = Cardinality(env.grid) - 1
                         /\ env'.performance = env.performance + 1
                    ELSE /\ env'.grid = env.grid
                         /\ env'.performance = env.performance ]_vars

(* a suck has just cleaned a cell and another cell is still dirty *)
C8_Witness ==
    /\ resp.op = "act" /\ resp.action = "suck" /\ resp.success
    /\ resp.reward = 1 /\ env.grid # {}

(* C9: performance starts at 0, never decreases, and changes only by +1   *)
(* on an accepted suck on a dirty cell.                                   *)
C9_PerformanceMonotone ==
    [][ /\ resp.op = "create" => env.performance = 0
        /\ \/ env'.performance = env.performance
           \/ /\ env'.performance = env.performance + 1
              /\ resp'.op = "act" /\ resp'.action = "suck" /\ resp'.success
              /\ is_dirty(env) ]_vars

(* the performance earned is kept by a later movement *)
C9_Witness ==
    /\ resp.op = "act" /\ resp.action \in Movement
    /\ env.performance > 0

(* the cell a movement action aims at *)
Target(e, action) ==
    <<e.agent_x + (CASE action = "left" -> -1 [] action = "right" -> 1 [] OTHER -> 0),
      e.agent_y + (CASE action = "up" -> -1 [] action = "down" -> 1 [] OTHER -> 0)>>

(* C10: a movement action on a Running session moves the agent one cell   *)
(* in its direction when the target cell is inside the grid and leaves    *)
(* the position unchanged when it is not; in both cases the call reports  *)
(* success and consumes exactly one step.                                 *)
C10_MovementEffect ==
    [][ (/\ resp'.op = "act" /\ resp'.action \in Movement
         /\ ~MaxStepsReached(env) /\ ~AllDirtCleaned(env))
          => LET t == Target(env, resp'.action)
             IN  /\ resp'.success
                 /\ env'.actions_taken = env.actions_taken + 1
                 /\ <<env'.agent_x, env'.agent_y>> =
                      IF t \in Cells(env.sizeX, env.sizeY) THEN t
                      ELSE <<env.agent_x, env.agent_y>> ]_vars

(* a move to the left on a session that is still running afterwards *)
C10_Witness ==
    /\ resp.op = "act" /\ resp.action = "left" /\ resp.success
    /\ ~resp.is_finished /\ env.agent_x = 0 /\ env.sizeX = 2

(* round(n / 100) as Python computes it: to the nearest integer, a half   *)
(* going to the even neighbour                                            *)
Round100(n) ==
    LET q == n \div 100
        r == n % 100
    IN  IF r > 50 \/ (r = 50 /\ q % 2 = 1) THEN q + 1 ELSE q

(* C12 as stated: a newly constructed world has                           *)
(* round(width * height * dirtRate) dirty cells.                          *)
C12_DirtCountRounded ==
    resp.op = "create"
      => Cardinality(env.grid) = Round100(env.sizeX * env.sizeY * env.dirt_rate)

(* C12 as amended: a newly constructed world has the integer part of      *)
(* width * height * dirtRate dirty cells (the product truncated, not      *)
(* rounded), all of them distinct cells inside the grid.                  *)
C12_DirtCountTruncated ==
    resp.op = "create"
      => /\ env.grid \subseteq Cells(env.sizeX, env.sizeY)
         /\ Cardinality(env.grid) * 100 <= env.sizeX * env.sizeY * env.dirt_rate
         /\ env.sizeX * env.sizeY * env.dirt_rate < (Cardinality(env.grid) + 1) * 100

(* a world just built whose product has a fractional part of a half or more *)
C12_Witness ==
    /\ resp.op = "create"
    /\ (env.sizeX * env.sizeY * env.dirt_rate) % 100 >= 50
    /\ env.grid # {}

(***************************************************************************)
(* Properties of the registry (SpecReg)                                    *)
(***************************************************************************)
(* parameters inside the ranges the specification gives for a session *)
ParametersInRange(p) ==
    /\ p[1] \in 1 .. 256 /\ p[2] \in 1 .. 256
    /\ p[3] \in 0 .. p[1] - 1 /\ p[4] \in 0 .. p[2] - 1
    /\ p[5] \in 0 .. 100

(* the action names of the enumeration, exactly as spelled *)
ActionNames == {"up", "down", "left", "right", "suck", "idle"}

(* a request about one session *)
OnSession(r) == r.op \in {"act", "sense", "state", "delete"}

(* the simulation fields of an entry of the registry *)
WorldOf(entry) == World(entry.environment)

(* C13: createSession with a size outside [1,256], an initial position    *)
(* outside the grid or a dirtRate outside [0,1] returns InvalidParameter  *)
(* and leaves the registry unchanged: no entry, no id used.               *)
C13_InvalidCreateRejected ==
    [][ (req'.op = "create" /\ ~ParametersInRange(req'.params))
          => /\ out'.op = "create" /\ out'.status = 400
             /\ environments' = environments
             /\ used' = used ]_regvars

(* a position one past the last column was refused while a session exists *)
C13_Witness ==
    /\ req.op = "create" /\ req.params = <<2, 1, 2, 0, 100>>
    /\ out.status = 400 /\ out.error = "Invalid initial position"
    /\ DOMAIN environments # {}

(* C15: act, sense, state and delete on an id that is not in the registry *)
(* return NotFound and change nothing: no session is created and no       *)
(* existing session's world or timestamps are modified.                   *)
C15_UnknownIdNotFound ==
    [][ (OnSession(req') /\ req'.env_id \notin DOMAIN environments)
          => /\ out'.status = 404
             /\ environments' = environments
             /\ used' = used ]_regvars

(* an act on an id not in the registry, another session being there *)
C15_Witness ==
    /\ req.op = "act" /\ req.env_id \notin DOMAIN environments
    /\ out.status = 404
    /\ DOMAIN environments # {}

(* C16 as stated: act with a name outside the enumeration on an existing  *)
(* session returns InvalidAction and changes nothing, lastAccessedAt      *)
(* included.                                                              *)
C16_InvalidActionNoMutation ==
    [][ (/\ req'.op = "act" /\ req'.env_id \in DOMAIN environments
         /\ req'.action \notin ActionNames)
          => /\ out'.status = 400
             /\ environments' = environments ]_regvars

(* C16 as amended: act with a name that is empty or, letter case aside,   *)
(* outside the enumeration returns InvalidAction and leaves the world     *)
(* (dirt, position, performance, stepsTaken) and every other session      *)
(* unchanged; the lookup that precedes the validation has set the         *)
(* session's lastAccessedAt to the current time.                          *)
C16_InvalidActionWorldUnchanged ==
    [][ (/\ req'.op = "act" /\ req'.env_id \in DOMAIN environments
         /\ req'.action \in {"jump", ""})
          => /\ out'.status = 400
             /\ DOMAIN environments' = DOMAIN environments
             /\ environments'[req'.env_id].environment = environments[req'.env_id].environment
             /\ environments'[req'.env_id].created_at = environments[req'.env_id].created_at
             /\ environments'[req'.env_id].last_access = clock
             /\ \A i \in DOMAIN environments \ {req'.env_id} :
                  environments'[i] = environments[i] ]_regvars

(* an invalid name was refused and the session's last access moved on *)
C16_Witness ==
    /\ req.op = "act" /\ req.action = "jump" /\ out.status = 400
    /\ req.env_id \in DOMAIN environments
    /\ environments[req.env_id].last_access > environments[req.env_id].created_at
    /\ environments[req.env_id].environment.actions_taken = 0

(* C17 as stated: a request with a name outside the enumeration and an    *)
(* unknown id is answered InvalidAction.                                  *)
C17_ValidationBeforeLookup ==
    [][ (/\ req'.op = "act" /\ req'.env_id \notin DOMAIN environments
         /\ req'.action \notin ActionNames)
          => out'.status = 400 ]_regvars

(* C17 as amended: the lookup precedes the validation of the name: such   *)
(* a request is answered NotFound.                                        *)
C17_LookupBeforeValidation ==
    [][ (/\ req'.op = "act" /\ req'.env_id \notin DOMAIN environments
         /\ req'.action \notin ActionNames)
          => (out'.status = 404 /\ out'.error = "Environment not found") ]_regvars

(* a request with a bad name for an id the server never handed out *)
C17_Witness ==
    /\ req.op = "act" /\ req.action = "jump" /\ req.env_id \notin used
    /\ out.status = 404

C19_ExactlyOneDeleteSucceeds ==
    (req.op = "delete" /\ req.env_id \in used /\ out.status = 404)
      => req.env_id \in deleted

(* C19 as amended: a delete returns success exactly when the id is in the *)
(* registry (created, and removed neither by a delete nor by the sweep)   *)
(* and NotFound otherwise, so at most one delete on an id succeeds; after *)
(* it the id is absent, never comes back, and every get on it fails       *)
(* NotFound.                                                              *)
C19_DeleteSucceedsAtMostOnce ==
    [][ /\ req'.op = "delete"
             => /\ out'.status = IF req'.env_id \in DOMAIN environments THEN 200 ELSE 404
                /\ out'.status = 200 => req'.env_id \notin deleted
                /\ DOMAIN environments' = DOMAIN environments \ {req'.env_id}
        /\ \A i \in used \ DOMAIN environments : i \notin DOMAIN environments'
        /\ (req'.op \in {"act", "sense", "state"} /\ req'.env_id \in deleted)
             => out'.status = 404 ]_regvars

(* a second delete on an id already deleted *)
C19_Witness ==
    /\ req.op = "delete" /\ out.status = 404
    /\ req.env_id \in deleted

(* C20: the sweep removes exactly the sessions with                       *)
(* now - lastAccessedAt > maxAge, keeps the others unchanged and returns  *)
(* the number removed.                                                    *)
C20_SweepRemovesExactlyTheOld ==
    [][ req'.op = "cleanup"
          => LET old == {i \in DOMAIN environments :
                           clock - environments[i].last_access > req'.max_age}
             IN  /\ DOMAIN environments' = DOMAIN environments \ old
                 /\ \A i \in DOMAIN environments' : environments'[i] = environments[i]
                 /\ out'.deleted_environments = Cardinality(old) ]_regvars

(* a sweep that removed one session and kept one whose age equals max_age *)
C20_Witness ==
    /\ req.op = "cleanup" /\ out.deleted_environments = 1
    /\ \E i \in DOMAIN environments : clock - environments[i].last_access = req.max_age


(***************************************************************************)
(* C14: Environment construction, and so EnvironmentServer                 *)
(* .create_environment called directly, fails for a size, an initial       *)
(* position or a dirt rate out of range, so that no registry entry holds   *)
(* a world whose agent position lies outside its grid.                     *)
(***************************************************************************)
C14_DirectCreateValidates ==
    /\ (req.op = "direct_create" /\ ~ParametersInRange(req.params)) => out.raised
    /\ \A i \in DOMAIN environments :
         LET e == environments[i].environment
         IN  /\ 0 <= e.agent_x /\ e.agent_x < e.sizeX
             /\ 0 <= e.agent_y /\ e.agent_y < e.sizeY

(***************************************************************************)
(* C11: any two sessions created with the same width, height and dirt rate *)
(* and the same explicit seed have the same initial dirt set, whatever     *)
(* other creations, seeded or not, run before, between or beside them.     *)
(***************************************************************************)
SameSeededRequest(t, u) ==
    /\ threads[t].pc = "done"
    /\ threads[u].pc = "done"
    /\ threads[t].seed # <<>>
    /\ threads[t].seed = threads[u].seed
    /\ threads[t].sizeX = threads[u].sizeX
    /\ threads[t].sizeY = threads[u].sizeY
    /\ threads[t].dirt_rate = threads[u].dirt_rate

InitialDirt(t) == environments[threads[t].env_id].environment.grid

C11_SameSeedSameDirt ==
    \A t, u \in Threads :
      SameSeededRequest(t, u) => InitialDirt(t) = InitialDirt(u)

(* two sessions of one seeded request and a third, unseeded, creation      *)
(* whose dirt differs                                                      *)
C11_Witness ==
    \E t, u, v \in Threads :
      /\ t # u
      /\ SameSeededRequest(t, u)
      /\ InitialDirt(t) # {}
      /\ threads[v].pc = "done"
      /\ threads[v].seed = <<>>
      /\ threads[v].sizeX = threads[t].sizeX
      /\ threads[v].sizeY = threads[t].sizeY
      /\ InitialDirt(v) # InitialDirt(t)

(***************************************************************************)
(* C23: sense and state are pure reads of the simulation: they change no   *)
(* field of the Environment (grid, position, performance, actions_taken,   *)
(* completion_reason), in every reachable state of the session, a freshly  *)
(* created one included.                                                   *)
(***************************************************************************)
C23_SenseStatePure ==
    [][resp'.op \in {"sense", "state"} => env' = env]_vars

(***************************************************************************)
(* C30: every successful lookup (by act, sense or state) sets the          *)
(* session's last_access to the current time, so last_access never         *)
(* decreases and created_at <= last_access always holds; failed lookups,   *)
(* the listing, the health check and the sweep change no session's         *)
(* last_access.                                                            *)
(***************************************************************************)
Lookup(r) == r.op \in {"act", "sense", "state"}

C30_LastAccessFollowsLookups ==
    [][ /\ (Lookup(req') /\ req'.env_id \in DOMAIN environments)
             => /\ req'.env_id \in DOMAIN environments'
                /\ environments'[req'.env_id].last_access = clock
        /\ \A i \in DOMAIN environments \cap DOMAIN environments' :
             /\ environments'[i].last_access >= environments[i].last_access
             /\ environments'[i].created_at = environments[i].created_at
             /\ ~(Lookup(req') /\ req'.env_id = i)
                  => environments'[i].last_access = environments[i].last_access
        /\ \A i \in DOMAIN environments' :
             environments'[i].created_at <= environments'[i].last_access ]_regvars

(* a session looked up after the clock moved on, then listed, health       *)
(* checked or swept without a change of its last access                    *)
C30_Witness ==
    /\ req.op \in {"list", "health", "cleanup"}
    /\ \E i \in DOMAIN environments :
         /\ environments[i].created_at < environments[i].last_access
         /\ environments[i].last_access = clock

(***************************************************************************)
(* C24: in every reachable state, the states reached when two or more act  *)
(* calls on one session interleave their budget check and their increment  *)
(* included, 0 <= actions_taken <= max_actions.                            *)
(***************************************************************************)
C24_StepsWithinBudget ==
    /\ 0 <= env.actions_taken
    /\ env.actions_taken <= env.max_actions

(***************************************************************************)
(* Properties of the registry under concurrent requests (SpecLock).        *)
(***************************************************************************)
(* the env_ids that create_environment has drawn but not inserted yet *)
PendingCreate ==
    { threads[t].env_id :
        t \in {u \in LockThreads : threads[u].pc \in {"create_lock", "construct", "insert"}} }

(* the env_ids of the sessions that a delete or a sweep took out *)
Removed == used \ (DOMAIN environments \cup PendingCreate)

(***************************************************************************)
(* C21: when a delete or a sweep removes a session between a request's     *)
(* lookup and its use of the session, the request in flight still answers  *)
(* without a server error and leaves the registry alone; every later       *)
(* lookup (act, sense, state) and delete of that id answers 404; a removed *)
(* id never comes back into the registry.                                  *)
(***************************************************************************)
C21_RemovedStaysRemoved ==
    [][ /\ (req'.op \in {"transition", "read"} /\ req'.env_id \in Removed)
             => /\ out'.status \in {200, 400}
                /\ environments' = environments
        /\ (req'.op \in {"lookup", "delete"} /\ req'.env_id \in Removed)
             => /\ out'.status = 404
                /\ environments' = environments
        /\ \A i \in Removed : i \notin DOMAIN environments' ]_<<regvars, lock, threads, orphans>>

(* an action answered with 200 on a session that left the registry after   *)
(* the lookup of the request                                               *)
C21_Witness ==
    /\ req.op = "transition"
    /\ req.env_id \in Removed
    /\ out.op = "act"
    /\ out.status = 200

(***************************************************************************)
(* C22: GET /api/environments answers 200 with exactly one summary for     *)
(* each session that is in the registry while the route holds the lock:    *)
(* no env_id twice, none that is not in the registry, none of the registry *)
(* left out, whatever the other threads create, delete or sweep meanwhile. *)
(***************************************************************************)
C22_ListIsSnapshot ==
    /\ out.op = "list" => out.status = 200
    /\ req.op = "list_end"
         => /\ { out.environments[k].environment_id : k \in DOMAIN out.environments }
                  = DOMAIN environments
            /\ Len(out.environments) = Cardinality(DOMAIN environments)
            /\ \A k \in DOMAIN out.environments :
                 out.environments[k].created_at
                   = environments[out.environments[k].environment_id].created_at

(* a list of a registry with a session answered while the other thread     *)
(* waits for the lock with a session to insert                             *)
C22_Witness ==
    /\ req.op = "list_end"
    /\ Len(out.environments) >= 1
    /\ \E t \in LockThreads : threads[t].pc = "create_lock"

(***************************************************************************)
(* C29 as stated: no Environment construction, action transition or        *)
(* is_finished evaluation runs on a thread that holds the registry lock.   *)
(***************************************************************************)
C29_NoSimulationUnderLock ==
    [][ req'.op \in {"construct", "transition", "read", "list_step"}
          => lock # req'.thread ]_<<regvars, lock, threads, orphans>>

(***************************************************************************)
(* C29: the action transition of execute_action and the is_finished        *)
(* evaluation of the act, sense and state routes run on a thread that does *)
(* not hold the registry lock and leave the lock alone; the construction   *)
(* of the Environment in create_environment and the is_finished evaluation *)
(* of list_environments run on the thread that holds it.                   *)
(***************************************************************************)
C29_LockAroundMapAndConstruction ==
    [][ /\ req'.op \in {"transition", "read"}
             => /\ lock # req'.thread
                /\ lock' = lock
        /\ req'.op \in {"construct", "list_step"}
             => /\ lock = req'.thread
                /\ lock' \in {lock, "None"} ]_<<regvars, lock, threads, orphans>>

(* an action transition done while the other thread holds the lock *)
C29_Witness ==
    /\ req.op = "transition"
    /\ lock \in LockThreads \ {req.thread}
    /\ out.op = "act"

(***************************************************************************)
(* The agent (src/base_agent.py): a recorded run against one session, the  *)
(* file written by disconnect, and a later BaseAgent that replays the      *)
(* file.  env is the session on the server, agent the fields of the        *)
(* BaseAgent object together with the last call (op), what it returned     *)
(* (ret, <<>> for None), what it printed and how its file access went      *)
(* (io); files is the directory game_data; shown lists the states that     *)
(* _draw_ui has drawn.  Recorded values are JSON values received from the  *)
(* server, which json.dump and json.load give back unchanged.              *)
(***************************************************************************)
(* actions the run may issue before it ends *)
MaxRecSteps == 2

(* frames the replay window may draw *)
MaxFrames == 4

(* parameters of the recorded sessions *)
AgentRequests == { <<2, 1, 0, 0, 50>>, <<2, 1, 0, 0, 100>> }

(* the actions think() chooses from *)
AgentActions == {"suck", "right", "idle"}

(* how open() and json.dump of _save_recording end: the file is written,   *)
(* open() raises, or the write breaks off after open() truncated the file  *)
SaveOutcomes == {"ok", "fail", "partial"}

(* the name _save_recording builds, and a name with no file behind it *)
ReplayFiles == {"game.json", "missing.json"}

(* how a call of the API client fails: the server is not reached or        *)
(* answers 404 (the client returns None, the session keeps its state); the *)
(* route runs and its answer is lost on the way back                       *)
FailedTransports == {"down", "lost"}

(* how a call of the API client goes: the route answers, or the call fails *)
Transports == {"ok"} \cup FailedTransports

(* how a GET of the client goes *)
ReadTransports == {"ok", "down"}

(* what pygame.event.get() delivers in one round of the replay loop *)
UiEvents == {"none", "space", "quit"}

(* a bool and an int as the value a call returned: a dict is a record, the *)
(* empty dict the empty function, and no two kinds are equal               *)
Boolean(b) == [bool |-> b]

Number(n) == [int |-> n]

(* BaseAgent.__init__ up to the loading of the replay file; requests is    *)
(* the number of requests the last call has sent to the server             *)
BaseAgent(enable_ui, record_game, replay_file) ==
    [ pc |-> "new", enable_ui |-> enable_ui, record_game |-> record_game,
      replay_file |-> replay_file, env_id |-> "None", connected |-> FALSE,
      total_actions |-> 0, successful_actions |-> 0, final_performance |-> 0,
      suck_attempts |-> 0, successful_sucks |-> 0, movement_actions |-> 0,
      idle_actions |-> 0, requests |-> 0,
      game_recording |-> [metadata |-> <<>>, initial_state |-> <<>>, steps |-> <<>>],
      replay_data |-> <<>>, replay_step |-> 0, running |-> TRUE, paused |-> FALSE,
      op |-> "BaseAgent", ret |-> <<>>, printed |-> "None", io |-> "none" ]

(* BaseAgent._capture_current_state: the answers of the state and sense routes *)
_capture_current_state(e) ==
    [ grid |-> e.grid,
      agent_position |-> <<e.agent_x, e.agent_y>>,
      is_dirty |-> is_dirty(e),
      performance |-> e.performance,
      actions_taken |-> e.actions_taken,
      actions_remaining |-> get_actions_remaining(e) ]

(* _capture_current_state when neither read is answered: the defaults of   *)
(* state.get and perception.get (the empty list holds no dirty cell)       *)
_capture_defaults ==
    [ grid |-> {}, agent_position |-> <<0, 0>>, is_dirty |-> FALSE,
      performance |-> 0, actions_taken |-> 0, actions_remaining |-> 0 ]

(* variant of replay_mode: no agent is taken to be replaying *)
replay_mode_never(a) == FALSE

(* `if self.replay_file` *)
replay_mode(a) == a.replay_file # "None"

(* BaseAgent.is_connected *)
is_connected(a) == a.connected \/ a.replay_file # "None"

(* BaseAgent._initialize_recording *)
_initialize_recording(a, e, p) ==
    [ metadata |-> [ agent_type |-> "BaseAgent", environment_size |-> <<p[1], p[2]>>,
                     dirt_rate |-> p[5], environment_id |-> a.env_id ],
      initial_state |-> [grid |-> e.grid, agent_position |-> <<e.agent_x, e.agent_y>>],
      steps |-> <<>> ]

(* BaseAgent.connect_to_environment; e is the session the server creates   *)
(* when it is asked to: the requests are a health check, the creation, the *)
(* state read of _initialize_efficiency_stats and that of                  *)
(* _initialize_recording                                                   *)
connect_to_environment(a, e, p) ==
    IF replay_mode(a)
    THEN [a EXCEPT !.op = "connect_to_environment", !.ret = <<Boolean(TRUE)>>, !.requests = 0,
                   !.printed = "Using replay mode, skipping server connection"]
    ELSE LET a1 == [a EXCEPT !.env_id = "a", !.connected = TRUE, !.pc = "live",
                             !.op = "connect_to_environment", !.ret = <<Boolean(TRUE)>>,
                             !.requests = 3]
         IN  IF a1.record_game
             THEN [a1 EXCEPT !.game_recording = _initialize_recording(a1, e, p),
                             !.requests = 4]
             ELSE a1

(* variant of _record_step: the step number is the number of earlier steps *)
_record_step_from_zero(recording, action, before_state, after_state) ==
    [recording EXCEPT !.steps = Append(@,
        [ step |-> Len(recording.steps),
          action |-> action,
          before_state |-> before_state,
          after_state |-> after_state,
          reward |-> after_state.performance - before_state.performance,
          perception |-> [ position |-> before_state.agent_position,
                           is_dirty |-> before_state.is_dirty,
                           actions_remaining |-> before_state.actions_remaining ] ])]

(* BaseAgent._record_step *)
_record_step(recording, action, before_state, after_state) ==
    [recording EXCEPT !.steps = Append(@,
        [ step |-> Len(recording.steps) + 1,
          action |-> action,
          before_state |-> before_state,
          after_state |-> after_state,
          reward |-> after_state.performance - before_state.performance,
          perception |-> [ position |-> before_state.agent_position,
                           is_dirty |-> before_state.is_dirty,
                           actions_remaining |-> before_state.actions_remaining ] ])]

(* variant of _update_efficiency_stats: a suck counts as successful when   *)
(* the action succeeded                                                    *)
_update_efficiency_stats_by_success(a, action, success, reward) ==
    CASE action = "suck" ->
           [a EXCEPT !.suck_attempts = @ + 1,
                     !.successful_sucks = IF success THEN @ + 1 ELSE @]
      [] action \in {"up", "down", "left", "right"} ->
           [a EXCEPT !.movement_actions = @ + 1]
      [] action = "idle" ->
           [a EXCEPT !.idle_actions = @ + 1]
      [] OTHER -> a

(* BaseAgent._update_efficiency_stats *)
_update_efficiency_stats(a, action, success, reward) ==
    CASE action = "suck" ->
           [a EXCEPT !.suck_attempts = @ + 1,
                     !.successful_sucks = IF reward > 0 THEN @ + 1 ELSE @]
      [] action \in {"up", "down", "left", "right"} ->
           [a EXCEPT !.movement_actions = @ + 1]
      [] action = "idle" ->
           [a EXCEPT !.idle_actions = @ + 1]
      [] OTHER -> a

(* metadata.get('final_performance', 0) *)
final_performance(metadata) ==
    IF "final_performance" \in DOMAIN metadata THEN metadata["final_performance"] ELSE 0

(* BaseAgent._save_recording: the metadata are filled in, then the file is *)
(* written; an exception is printed and nothing is raised or returned      *)
_save_recording(a, fs, io) ==
    LET recording == [a.game_recording EXCEPT !.metadata =
                        [ final_performance |-> a.final_performance,
                          total_actions |-> a.total_actions,
                          successful_actions |-> a.successful_actions ] @@ @]
        written == [complete |-> io = "ok", data |-> recording]
    IN  [ agent |-> [a EXCEPT !.game_recording = recording],
          files |-> IF io = "fail"
                    THEN fs
                    ELSE [n \in DOMAIN fs \cup {"game.json"} |->
                            IF n = "game.json" THEN written ELSE fs[n]],
          printed |-> IF io = "ok" THEN "Game recording saved"
                                   ELSE "Error saving recording",
          ret |-> <<>> ]

(* BaseAgent._load_replay_data: open() and json.load, an exception printed *)
_load_replay_data(a, fs) ==
    IF a.replay_file \in DOMAIN fs /\ fs[a.replay_file].complete
    THEN [a EXCEPT !.replay_data = <<fs[a.replay_file].data>>,
                   !.printed = "Loaded replay data", !.io = "ok"]
    ELSE [a EXCEPT !.replay_data = <<>>,
                   !.printed = "Error loading replay file", !.io = "fail"]

(* the steps of the loaded recording *)
replay_steps(a) == IF a.replay_data = <<>> THEN <<>> ELSE a.replay_data[1].steps

(* BaseAgent._get_replay_perception; steps[replay_step] of the 0-based     *)
(* Python list is the element replay_step + 1 here                         *)
_get_replay_perception(a) ==
    IF a.replay_data = <<>> \/ a.replay_step >= Len(replay_steps(a))
    THEN [is_finished |-> TRUE]
    ELSE replay_steps(a)[a.replay_step + 1].perception

(* BaseAgent._get_replay_state *)
_get_replay_state(a) ==
    IF a.replay_data = <<>> \/ a.replay_step >= Len(replay_steps(a))
    THEN [is_finished |-> TRUE]
    ELSE replay_steps(a)[a.replay_step + 1].after_state

(* BaseAgent.get_perception: the empty dict is the empty function <<>> *)
get_perception(a, e, transport) ==
    IF ~is_connected(a)
    THEN [ agent |-> [a EXCEPT !.op = "get_perception", !.ret = << <<>> >>,
                               !.requests = 0],
           env |-> e ]
    ELSE IF replay_mode(a)
    THEN [ agent |-> [a EXCEPT !.op = "get_perception",
                               !.ret = <<_get_replay_perception(a)>>, !.requests = 0],
           env |-> e ]
    ELSE IF transport = "down"
    THEN [ agent |-> [a EXCEPT !.op = "get_perception", !.ret = << <<>> >>,
                               !.requests = 1],
           env |-> e ]
    ELSE LET f == is_finished(e)
         IN  [ agent |-> [a EXCEPT !.op = "get_perception",
                             !.ret = IF transport = "ok"
                                     THEN << [ position |-> <<e.agent_x, e.agent_y>>,
                                               is_dirty |-> is_dirty(e),
                                               actions_remaining |-> get_actions_remaining(e),
                                               is_finished |-> f.ret ] >>
                                     ELSE << <<>> >>,
                             !.requests = 1],
               env |-> f.env ]

(* BaseAgent.get_environment_state *)
get_state(a, e, transport) ==
    IF ~is_connected(a)
    THEN [ agent |-> [a EXCEPT !.op = "get_environment_state", !.ret = << <<>> >>,
                               !.requests = 0],
           env |-> e ]
    ELSE IF replay_mode(a)
    THEN [ agent |-> [a EXCEPT !.op = "get_environment_state",
                               !.ret = <<_get_replay_state(a)>>, !.requests = 0],
           env |-> e ]
    ELSE IF transport = "down"
    THEN [ agent |-> [a EXCEPT !.op = "get_environment_state", !.ret = << <<>> >>,
                               !.requests = 1],
           env |-> e ]
    ELSE LET f == is_finished(e)
         IN  [ agent |-> [a EXCEPT !.op = "get_environment_state",
                             !.ret = IF transport = "ok"
                                     THEN << [ environment_id |-> a.env_id,
                                               agent_position |-> <<e.agent_x, e.agent_y>>,
                                               is_dirty |-> is_dirty(e),
                                               performance |-> e.performance,
                                               actions_taken |-> e.actions_taken,
                                               actions_remaining |-> get_actions_remaining(e),
                                               is_finished |-> f.ret,
                                               completion_reason |-> f.env.completion_reason,
                                               grid |-> e.grid ] >>
                                     ELSE << <<>> >>,
                             !.requests = 1],
               env |-> f.env ]

(* variant of step_recorded: a snapshot made of defaults counts as missing *)
step_recorded_if_captured(a, before_state) ==
    a.record_game /\ before_state # _capture_defaults

(* `if self.record_game and before_state`: a dict with keys is true *)
step_recorded(a, before_state) == a.record_game /\ DOMAIN before_state # {}

(* BaseAgent._execute_action: the value returned is success, None counted  *)
(* as False; the snapshots are taken by the state and sense routes, which  *)
(* call is_finished                                                        *)
_execute_action(a, e, action, transport) ==
    IF ~is_connected(a)
    THEN [ agent |-> [a EXCEPT !.op = "_execute_action", !.ret = <<Boolean(FALSE)>>,
                               !.requests = 0],
           env |-> e ]
    ELSE IF replay_mode(a)
    THEN [ agent |-> [a EXCEPT !.op = "_execute_action", !.ret = <<Boolean(TRUE)>>,
                               !.requests = 0],
           env |-> e ]
    ELSE LET reached == transport # "down"
             e0 == IF a.record_game /\ reached THEN is_finished(e).env ELSE e
             before_state == IF reached THEN _capture_current_state(e0)
                                        ELSE _capture_defaults
             r == IF reached THEN accept_action(e0, action) ELSE [env |-> e0, ret |-> FALSE]
             e1 == IF reached THEN is_finished(r.env).env ELSE e0
             success == transport = "ok" /\ r.ret
             reward == IF transport = "ok" THEN r.env.performance - e0.performance ELSE 0
             after_state == IF reached THEN _capture_current_state(e1)
                                       ELSE _capture_defaults
             a1 == [a EXCEPT !.total_actions = @ + 1,
                             !.successful_actions = IF success THEN @ + 1 ELSE @]
             a2 == _update_efficiency_stats(a1, action, success, reward)
             a3 == IF step_recorded(a, before_state)
                   THEN [a2 EXCEPT !.game_recording =
                                      _record_step(@, action, before_state, after_state)]
                   ELSE a2
         IN  [ agent |-> [a3 EXCEPT !.op = "_execute_action", !.ret = <<Boolean(success)>>,
                                    !.requests = IF a.record_game THEN 5 ELSE 1],
               env |-> e1 ]

(* BaseAgent._handle_ui_events for one event *)
_handle_ui_events(a, event) ==
    CASE event = "quit"  -> [a EXCEPT !.running = FALSE]
      [] event = "space" -> [a EXCEPT !.paused = ~a.paused]
      [] OTHER           -> a

(* variant of advance: the cursor moves on by two *)
advance_by_two(a) == [a EXCEPT !.replay_step = a.replay_step + 2]

(* self.replay_step += 1 *)
advance(a) == [a EXCEPT !.replay_step = a.replay_step + 1]

(* the condition of the while loop of _run_replay_with_ui *)
replay_continues(a) == a.running /\ a.replay_step < Len(replay_steps(a))

InitAgent ==
    /\ \E p \in AgentRequests, record_game \in BOOLEAN :
         \E dirty_positions \in SUBSET Cells(p[1], p[2]) :
           /\ Cardinality(dirty_positions) = num_dirty(p[1], p[2], p[5])
           /\ env = Environment(p[1], p[2], p[3], p[4], p[5], dirty_positions)
           /\ agent = connect_to_environment(BaseAgent(FALSE, record_game, "None"), env, p)
    /\ files = <<>>
    /\ shown = <<>>
    /\ orphans = <<>>
    /\ resp = [op |-> "none"]
    /\ RegistryAside
    /\ SeedAside

(* variant of loop_continues: the loop goes on whatever think() returned *)
loop_continues_always(a) == TRUE

(* `if not self.think(): break`, think() returning what the action method  *)
(* it called returned (src/agents: `return self.suck()` and the like)      *)
loop_continues(a) == a.ret = <<Boolean(TRUE)>>

(* the head of a round of the loop of _run_headless: the state is read and *)
(* the loop is left if it is empty or finished; then think() reads the     *)
(* perception and returns False if it is empty or finished                 *)
LoopTest ==
    /\ agent.pc = "live"
    /\ \E transport \in ReadTransports, sensed \in ReadTransports :
         LET s == get_state(agent, env, transport)
             state == s.agent.ret[1]
             q == get_perception(s.agent, s.env, sensed)
             perception == q.agent.ret[1]
         IN  IF DOMAIN state = {} \/ state.is_finished
             THEN /\ agent' = [s.agent EXCEPT !.pc = "ending"]
                  /\ env' = s.env
             ELSE IF DOMAIN perception = {} \/ perception.is_finished
             THEN /\ agent' = [q.agent EXCEPT !.pc = "ending"]
                  /\ env' = q.env
             ELSE /\ agent.total_actions < MaxRecSteps
                  /\ agent' = [q.agent EXCEPT !.pc = "think"]
                  /\ env' = q.env
    /\ UNCHANGED <<files, shown>>

(* the rest of think(): it calls one of up(), suck(), ..., which call      *)
(* _execute_action, and the loop goes on or is left; the action request is *)
(* answered                                                                *)
think ==
    /\ agent.pc = "think"
    /\ \E action \in AgentActions :
         LET r == _execute_action(agent, env, action, "ok")
         IN  /\ agent' = [r.agent EXCEPT !.pc = IF loop_continues(r.agent)
                                                THEN "live" ELSE "ending"]
             /\ env' = r.env
    /\ UNCHANGED <<files, shown>>

(* the rest of think() when the action request fails *)
think_failed ==
    /\ agent.pc = "think"
    /\ \E action \in AgentActions, transport \in FailedTransports :
         LET r == _execute_action(agent, env, action, transport)
         IN  /\ agent' = [r.agent EXCEPT !.pc = IF loop_continues(r.agent)
                                                THEN "live" ELSE "ending"]
             /\ env' = r.env
    /\ UNCHANGED <<files, shown>>

(* the end of _run_headless: the final state is read *)
_run_headless ==
    /\ agent.pc = "ending"
    /\ \E transport \in ReadTransports :
         LET s == get_state(agent, env, transport)
             final_state == s.agent.ret[1]
             performance == IF DOMAIN final_state = {} THEN 0 ELSE final_state.performance
         IN  /\ agent' = [s.agent EXCEPT !.final_performance = performance,
                                         !.pc = "finished", !.op = "_run_headless",
                                         !.ret = <<Number(performance)>>]
             /\ env' = s.env
    /\ UNCHANGED <<files, shown>>

(* BaseAgent.disconnect: the session is deleted on the server, then the    *)
(* recording is saved if there is one                                      *)
disconnect ==
    /\ agent.pc = "finished"
    /\ \E io \in SaveOutcomes :
         LET a1 == [agent EXCEPT !.env_id = "None", !.connected = FALSE,
                                 !.pc = "disconnected", !.op = "disconnect", !.ret = <<>>,
                                 !.requests = 1]
             s == _save_recording(a1, files, io)
         IN  IF a1.record_game /\ a1.game_recording.steps # <<>>
             THEN /\ agent' = [s.agent EXCEPT !.printed = s.printed, !.io = io]
                  /\ files' = s.files
             ELSE /\ agent' = [a1 EXCEPT !.printed = "Disconnected", !.io = "none"]
                  /\ files' = files
    /\ UNCHANGED <<env, shown>>

(* a later run of the program: BaseAgent(replay_file=...) *)
NewReplayAgent ==
    /\ agent.pc = "disconnected"
    /\ \E enable_ui \in BOOLEAN, replay_file \in ReplayFiles :
         agent' = [_load_replay_data(BaseAgent(enable_ui, FALSE, replay_file), files)
                     EXCEPT !.pc = "ready"]
    /\ UNCHANGED <<env, files, shown>>

(* BaseAgent._run_replay and, without the UI, _run_replay_headless *)
_run_replay ==
    /\ agent.pc = "ready"
    /\ agent' = IF agent.replay_data = <<>>
                THEN [agent EXCEPT !.pc = "done", !.op = "_run_replay", !.ret = <<Number(0)>>,
                                   !.printed = "No replay data loaded"]
                ELSE IF agent.enable_ui
                THEN [agent EXCEPT !.pc = "replay", !.op = "_run_replay",
                                   !.replay_step = 0]
                ELSE [agent EXCEPT !.pc = "done", !.op = "_run_replay_headless",
                                   !.ret = <<Number(final_performance(agent.replay_data[1].metadata))>>]
    /\ UNCHANGED <<env, files, shown>>

(* one round of the while loop of _run_replay_with_ui: the events, the     *)
(* step of the cursor unless paused, then _draw_ui, which draws            *)
(* get_environment_state(), that is _get_replay_state()                    *)
_run_replay_with_ui ==
    /\ agent.pc = "replay"
    /\ replay_continues(agent)
    /\ Len(shown) < MaxFrames
    /\ \E event \in UiEvents :
         LET a1 == _handle_ui_events(agent, event)
             a2 == IF ~a1.paused THEN advance(a1) ELSE a1
         IN  /\ agent' = [a2 EXCEPT !.op = "_run_replay_with_ui"]
             /\ shown' = Append(shown, _get_replay_state(a2))
    /\ UNCHANGED <<env, files>>

(* the loop of _run_replay_with_ui is left: the value returned *)
ReplayReturn ==
    /\ agent.pc = "replay"
    /\ ~replay_continues(agent)
    /\ agent' = [agent EXCEPT !.pc = "done", !.op = "_run_replay_with_ui",
                              !.ret = <<Number(final_performance(agent.replay_data[1].metadata))>>]
    /\ UNCHANGED <<env, files, shown>>

(* calls on an agent made with a replay file: connect_to_environment,      *)
(* where a live agent would have the server create a session               *)
ReplayConnect ==
    /\ agent.pc \in {"ready", "replay", "done"}
    /\ \E p \in AgentRequests :
         \E dirty_positions \in SUBSET Cells(p[1], p[2]) :
           /\ Cardinality(dirty_positions) = num_dirty(p[1], p[2], p[5])
           /\ env' = IF replay_mode(agent)
                     THEN env
                     ELSE Environment(p[1], p[2], p[3], p[4], p[5], dirty_positions)
           /\ agent' = connect_to_environment(agent, env', p)
    /\ UNCHANGED <<files, shown>>

(* up(), suck(), idle(), ... of an agent made with a replay file *)
ReplayAction ==
    /\ agent.pc \in {"ready", "replay", "done"}
    /\ \E action \in AgentActions, transport \in Transports :
         LET r == _execute_action(agent, env, action, transport)
         IN  /\ agent' = r.agent
             /\ env' = r.env
    /\ UNCHANGED <<files, shown>>

(* get_perception() of an agent made with a replay file *)
ReplayPerception ==
    /\ agent.pc \in {"ready", "replay", "done"}
    /\ \E transport \in ReadTransports :
         LET r == get_perception(agent, env, transport)
         IN  /\ agent' = r.agent
             /\ env' = r.env
    /\ UNCHANGED <<files, shown>>

(* get_environment_state() of an agent made with a replay file *)
ReplayState ==
    /\ agent.pc \in {"ready", "replay", "done"}
    /\ \E transport \in ReadTransports :
         LET r == get_state(agent, env, transport)
         IN  /\ agent' = r.agent
             /\ env' = r.env
    /\ UNCHANGED <<files, shown>>

NextAgent ==
    \/ LoopTest /\ UNCHANGED <<resp, regvars, seedvars, orphans>>
    \/ think /\ UNCHANGED <<resp, regvars, seedvars, orphans>>
    \/ _run_headless /\ UNCHANGED <<resp, regvars, seedvars, orphans>>
    \/ disconnect /\ UNCHANGED <<resp, regvars, seedvars, orphans>>
    \/ NewReplayAgent /\ UNCHANGED <<resp, regvars, seedvars, orphans>>
    \/ _run_replay /\ UNCHANGED <<resp, regvars, seedvars, orphans>>
    \/ _run_replay_with_ui /\ UNCHANGED <<resp, regvars, seedvars, orphans>>
    \/ ReplayReturn /\ UNCHANGED <<resp, regvars, seedvars, orphans>>
    \/ ReplayConnect /\ UNCHANGED <<resp, regvars, seedvars, orphans>>
    \/ ReplayAction /\ UNCHANGED <<resp, regvars, seedvars, orphans>>
    \/ ReplayPerception /\ UNCHANGED <<resp, regvars, seedvars, orphans>>
    \/ ReplayState /\ UNCHANGED <<resp, regvars, seedvars, orphans>>

SpecAgent == InitAgent /\ [][NextAgent]_<<env, agent, files, shown>>

(***************************************************************************)
(* Properties of the recording and of the replay (SpecAgent).              *)
(***************************************************************************)
(* the agent object of the step is the one that records *)
Recording(a) == a.pc \in {"live", "think", "ending", "finished", "disconnected"}

(***************************************************************************)
(* C27: the k-th record of game_recording['steps'] carries step number k,  *)
(* counted from 1; a captured step appends one record and leaves every     *)
(* earlier record as it was and where it was; nothing else the recording   *)
(* agent does changes the list.                                            *)
(***************************************************************************)
C27_StepNumbersSequential ==
    [][ Recording(agent')
          => LET steps == agent.game_recording.steps
                 steps_after == agent'.game_recording.steps
             IN  /\ \A k \in DOMAIN steps_after : steps_after[k].step = k
                 /\ (agent'.op = "_execute_action" /\ agent.record_game)
                      => /\ Len(steps_after) = Len(steps) + 1
                         /\ \A k \in DOMAIN steps : steps_after[k] = steps[k]
                 /\ (agent'.op # "_execute_action" \/ ~agent.record_game)
                      => steps_after = steps ]_<<env, agent, files, shown>>

(* a second step has just been captured *)
C27_Witness ==
    /\ agent.op = "_execute_action"
    /\ agent.record_game
    /\ Len(agent.game_recording.steps) = 2
    /\ agent.game_recording.steps[2].step = 2

(* the agent object of the step is one that replays *)
Replaying(a) == a.pc \in {"ready", "replay", "done"}

(***************************************************************************)
(* C26: 0 <= replay_step <= len(steps) in every state of a replaying       *)
(* agent; a step of the agent leaves the cursor or moves it on by exactly  *)
(* one, and a round of the replay loop that is not paused moves it on;     *)
(* get_perception returns the perception of steps[replay_step] while the   *)
(* cursor is inside the trace and {'is_finished': True} at the end or when *)
(* no replay data are loaded, and the frame drawn is the after_state read  *)
(* the same way.                                                           *)
(***************************************************************************)
C26_CursorWithinTrace ==
    [][ (Replaying(agent) /\ Replaying(agent'))
          => LET n == Len(replay_steps(agent'))
                 cursor == agent'.replay_step
             IN  /\ 0 <= cursor /\ cursor <= n
                 /\ cursor \in {agent.replay_step, agent.replay_step + 1}
                 /\ (shown' # shown /\ ~agent'.paused) => cursor = agent.replay_step + 1
                 /\ agent'.op = "get_perception"
                      => agent'.ret = IF agent'.replay_data # <<>> /\ cursor < n
                                      THEN <<agent'.replay_data[1].steps[cursor + 1].perception>>
                                      ELSE <<[is_finished |-> TRUE]>>
                 /\ shown' # shown
                      => shown'[Len(shown')] =
                            IF cursor < n
                            THEN agent'.replay_data[1].steps[cursor + 1].after_state
                            ELSE [is_finished |-> TRUE] ]_<<env, agent, files, shown>>

(* a read inside the trace after the cursor has moved on once *)
C26_Witness ==
    /\ agent.op = "get_perception"
    /\ agent.replay_step = 1
    /\ Len(replay_steps(agent)) = 2
    /\ agent.ret = <<replay_steps(agent)[2].perception>>

(***************************************************************************)
(* C25: when a replay with the window has run to the end of a recording of *)
(* n steps, the states drawn are the n recorded after_state snapshots, in  *)
(* order, each once.                                                       *)
(***************************************************************************)
C25_ReplayShowsEveryAfterState ==
    (agent.pc = "done" /\ agent.enable_ui /\ agent.replay_data # <<>> /\ agent.running)
      => shown = [k \in 1 .. Len(replay_steps(agent)) |-> replay_steps(agent)[k].after_state]

(***************************************************************************)
(* C28: when the write of _save_recording fails at disconnect, the caller  *)
(* gets an error outcome back, the recorded steps and the session are as   *)
(* before and the agent goes on; when the read of _load_replay_data fails, *)
(* the agent goes on without replay data; a replay without replay data     *)
(* draws nothing and returns 0.                                            *)
(***************************************************************************)
C28_IoFailureObservable ==
    [][ /\ (agent'.op = "disconnect" /\ agent'.io \in {"fail", "partial"})
             => /\ agent'.ret # <<>>
                /\ agent'.game_recording.steps = agent.game_recording.steps
                /\ env' = env
        /\ (agent'.op = "BaseAgent" /\ agent'.io = "fail")
             => /\ agent'.replay_data = <<>>
                /\ agent'.printed = "Error loading replay file"
        /\ (Replaying(agent') /\ agent'.replay_data = <<>>)
             => /\ shown' = <<>>
                /\ (agent'.op = "_run_replay" => agent'.ret = <<Number(0)>>) ]_<<env, agent, files, shown>>

(***************************************************************************)
(* Properties of the dirt and of the reported termination (Spec).          *)
(***************************************************************************)
(***************************************************************************)
(* C32: no step adds a cell to the dirt, so the dirt stays a subset of the *)
(* cells chosen at construction; the only step that changes it is an       *)
(* accepted suck, which removes the cell of the agent and nothing else.    *)
(***************************************************************************)
C32_DirtOnlyShrinks ==
    [][ /\ env'.grid \subseteq env.grid
        /\ env'.grid \subseteq Cells(env.sizeX, env.sizeY)
        /\ env'.grid # env.grid
             => /\ resp'.op = "act" /\ resp'.action = "suck" /\ resp'.success
                /\ env'.grid = env.grid \ {<<env.agent_x, env.agent_y>>} ]_vars

(* a suck has cleaned one of two dirty cells *)
C32_Witness ==
    /\ resp.op = "act" /\ resp.action = "suck" /\ resp.reward = 1
    /\ env.grid # {}
    /\ <<env.agent_x, env.agent_y>> \notin env.grid

(* the number of cells made dirty at construction *)
InitialDirtCount(e) == num_dirty(e.sizeX, e.sizeY, e.dirt_rate)

(***************************************************************************)
(* C35: for a session whose requests are served one at a time, performance *)
(* plus the number of dirty cells is the number of cells made dirty at     *)
(* construction; so performance never exceeds that number and equals it    *)
(* exactly when no dirt is left.                                           *)
(***************************************************************************)
C35_PerformancePlusDirt ==
    /\ env.performance + Cardinality(env.grid) = InitialDirtCount(env)
    /\ env.performance <= InitialDirtCount(env)
    /\ env.performance = InitialDirtCount(env) <=> env.grid = {}

(* both dirty cells of a session have been cleaned *)
C35_Witness ==
    /\ env.performance = 2
    /\ env.grid = {}
    /\ resp.op = "act" /\ resp.action = "suck" /\ resp.reward = 1

C36_EachCellRewardedOnce ==
    /\ env.performance <= InitialDirtCount(env)
    /\ resp.op = "act" => resp.reward \in {0, 1}

(***************************************************************************)
(* C31: an act, sense or state request on one env_id leaves the            *)
(* Environment of every other env_id of the registry as it was (grid,      *)
(* position, performance, actions_taken, completion_reason) and keeps it   *)
(* in the registry: no two entries share one Environment, a shared one     *)
(* would change under both env_ids at once.                                *)
(***************************************************************************)
C31_SessionsIsolated ==
    [][ req'.op \in {"act", "sense", "state"}
          => \A i \in DOMAIN environments \ {req'.env_id} :
               /\ i \in DOMAIN environments'
               /\ environments'[i].environment = environments[i].environment ]_regvars

(* an action on one of two sessions went through and the other session    *)
(* is still where it started                                               *)
C31_Witness ==
    /\ req.op = "act" /\ out.status = 200 /\ out.success
    /\ Cardinality(DOMAIN environments) = 2
    /\ environments[req.env_id].environment.actions_taken = 1
    /\ \E i \in DOMAIN environments \ {req.env_id} :
         environments[i].environment.actions_taken = 0

(***************************************************************************)
(* C33: a call on an agent made with a replay file never reaches the       *)
(* server: the session there stays as it is and no request is sent, the    *)
(* agent stays without a session id, connect_to_environment and every      *)
(* action call return True and count nothing, and get_perception and       *)
(* get_environment_state return an entry of the loaded steps or the        *)
(* terminal marker.                                                        *)
(***************************************************************************)
C33_ReplayRunsNoSimulation ==
    [][ agent'.replay_file # "None"
          => /\ env' = env
             /\ agent'.requests = 0
             /\ ~agent'.connected /\ agent'.env_id = "None"
             /\ agent'.total_actions = 0 /\ agent'.game_recording.steps = <<>>
             /\ agent'.op \in {"connect_to_environment", "_execute_action"}
                  => agent'.ret = <<Boolean(TRUE)>>
             /\ agent'.op = "get_perception"
                  => agent'.ret[1] \in { replay_steps(agent)[k].perception :
                                           k \in 1 .. Len(replay_steps(agent)) }
                                         \cup { [is_finished |-> TRUE] }
             /\ agent'.op = "get_environment_state"
                  => agent'.ret[1] \in { replay_steps(agent)[k].after_state :
                                           k \in 1 .. Len(replay_steps(agent)) }
                                         \cup { [is_finished |-> TRUE] }
      ]_<<env, agent, files, shown>>

(* an action call on a replaying agent whose recording holds a step, the   *)
(* recorded session still being on the server                              *)
C33_Witness ==
    /\ agent.replay_file # "None"
    /\ agent.op = "_execute_action"
    /\ agent.ret = <<Boolean(TRUE)>>
    /\ Len(replay_steps(agent)) >= 1
    /\ env.actions_taken >= 1

(***************************************************************************)
(* A headless run while the service has other clients (SpecRun): the       *)
(* session id of the agent is listed by GET /api/environments, so another  *)
(* client can send actions to the session.  Here it idles in bursts        *)
(* between the loop test of the first round of the agent and its first     *)
(* action.                                                                 *)
(***************************************************************************)
(* actions the other client sends in one burst *)
Burst == 50

(* the loop of the other client, at most n rounds: it reads the state and  *)
(* sends idle unless the session is finished                               *)
RECURSIVE idle_times(_, _)
idle_times(e, n) ==
    LET f == is_finished(e)
    IN  IF n = 0 \/ f.ret
        THEN f.env
        ELSE idle_times(accept_action(f.env, "idle").env, n - 1)

OtherClient ==
    /\ agent.pc = "think"
    /\ agent.total_actions = 0
    /\ env' = idle_times(env, Burst)
    /\ UNCHANGED <<agent, files, shown>>

NextRun ==
    \/ LoopTest /\ UNCHANGED <<resp, regvars, seedvars, orphans>>
    \/ think /\ UNCHANGED <<resp, regvars, seedvars, orphans>>
    \/ think_failed /\ UNCHANGED <<resp, regvars, seedvars, orphans>>
    \/ _run_headless /\ UNCHANGED <<resp, regvars, seedvars, orphans>>
    \/ disconnect /\ UNCHANGED <<resp, regvars, seedvars, orphans>>
    \/ OtherClient /\ UNCHANGED <<resp, regvars, seedvars, orphans>>

SpecRun == InitAgent /\ [][NextRun]_<<env, agent, files, shown>>

(* the process of the agent keeps running: a round of the loop and the end *)
(* of _run_headless are executed when they can be                          *)
AgentRuns ==
    /\ LoopTest \/ think \/ think_failed \/ _run_headless
    /\ UNCHANGED <<resp, regvars, seedvars, orphans>>

(* every step of AgentRuns changes the position of the run *)
position == agent.pc

SpecRunFair == SpecRun /\ WF_position(AgentRuns)

(***************************************************************************)
(* Properties of the counters of a run (SpecRun).                          *)
(***************************************************************************)
(* the recording of a run that is being made or has been saved *)
Finalized(a) == a.pc = "disconnected" /\ "total_actions" \in DOMAIN a.game_recording.metadata

(***************************************************************************)
(* C34: in a run with record_game every call of _execute_action appends    *)
(* one step record, whether the service accepts the action, rejects it or  *)
(* the request fails: the number of step records is total_actions all      *)
(* along, and the metadata written at disconnect carry total_actions equal *)
(* to the number of step records and successful_actions <= total_actions.  *)
(***************************************************************************)
C34_OneStepPerActionCall ==
    /\ agent.record_game
         => /\ Len(agent.game_recording.steps) = agent.total_actions
            /\ agent.successful_actions <= agent.total_actions
    /\ Finalized(agent)
         => /\ agent.game_recording.metadata.total_actions = Len(agent.game_recording.steps)
            /\ agent.game_recording.metadata.successful_actions
                 <= agent.game_recording.metadata.total_actions
            /\ \A n \in DOMAIN files :
                 /\ files[n].data.metadata.total_actions = Len(files[n].data.steps)
                 /\ files[n].data.metadata.successful_actions
                      <= files[n].data.metadata.total_actions

(* a saved recording of one action call, which the service rejected        *)
(* because the session had used its 1000 actions                           *)
C34_Witness ==
    /\ Finalized(agent)
    /\ agent.io = "ok"
    /\ Len(agent.game_recording.steps) = 1
    /\ agent.successful_actions = 0
    /\ agent.game_recording.steps[1].before_state.actions_taken = 1000
    /\ agent.game_recording.steps[1].before_state.performance >= 0
    /\ agent.game_recording.steps[1].after_state.actions_taken = 1000

C39_CountersAddUp ==
    /\ [](/\ agent.total_actions = agent.suck_attempts + agent.movement_actions
                                     + agent.idle_actions
          /\ agent.successful_sucks <= agent.suck_attempts
          /\ agent.successful_actions <= agent.total_actions)
    /\ [][ LET called == agent'.total_actions # agent.total_actions
               sucked == agent'.suck_attempts # agent.suck_attempts
               rewarded == /\ sucked
                           /\ agent'.ret = <<Boolean(TRUE)>>
                           /\ env'.performance > env.performance
           IN  /\ called <=> (agent.pc = "think" /\ agent'.op = "_execute_action")
               /\ called => agent'.total_actions = agent.total_actions + 1
               /\ sucked => called /\ agent'.suck_attempts = agent.suck_attempts + 1
               /\ agent'.successful_sucks =
                    IF rewarded THEN agent.successful_sucks + 1 ELSE agent.successful_sucks
         ]_<<env, agent, files, shown>>

(* two suck calls, the first on a dirty cell, the second on the cleaned one *)
C39_Witness ==
    /\ agent.op = "_execute_action"
    /\ agent.total_actions = 2
    /\ agent.suck_attempts = 2
    /\ agent.successful_sucks = 1
    /\ agent.successful_actions = 2

====
